---- MODULE Spec2Model ----
(***************************************************************************)
(* Auralia MetaPet: the autonomous behaviour hook (useGuardianAI), the     *)
(* vitals handlers of the main component and of the web variant, the       *)
(* consciousness memory, the breeding engine and the Fibonacci core.       *)
(*                                                                         *)
(* Vitals are kept in halves (energy = 100 means 50.0): the smallest       *)
(* increment in the source is 0.5.  Genome axes are kept in twentieths     *)
(* (the weights of computeGenome have one decimal).  Probabilities are     *)
(* percentages, a Math.random() draw r is the percentage floor(100 r).     *)
(***************************************************************************)
EXTENDS Integers, Sequences, FiniteSets, TLC

VARIABLES
  \* ---- useGuardianAI (guardianBehaviorStubs.tsx) and its caller
  mode,            \* useState<GuardianAIMode>
  focusedSigil,    \* useState<number | null>
  timers,          \* the pending setTimeout callbacks of the hook
  timerRef,        \* timerRef.current
  effectPending,   \* a render with changed deps committed, its effect not yet flushed
  reseedPending,   \* the seed name changed and the hook's effect has not run since
  calls,           \* the callbacks the last step invoked
  draw,            \* what the last step's transitionToNextMode drew and read
  aiConfig,        \* useState<AIBehaviorConfig>
  seedName,        \* useState<string>
  \* ---- vitals of the main component
  energy, curiosity, bond, health,
  genome,            \* { red60, blue60, black60 } of the last render, in twentieths
  \* ---- games, breeding and interaction state of the main component
  bondHistory,       \* useState<BondHistoryEntry[]>
  offspring,         \* useState<Offspring[]>
  gamesWon,          \* useState<number>
  totalInteractions, \* useState<number>
  breedingPartner,   \* useState<string>
  whisper,           \* the text of the last whisper
  prngDraws,         \* number of field.prng() calls made so far
  activatedPoints,   \* useState<Set<number>>
  patternChallenge,  \* useState<PatternChallenge>
  triviaQuestion,    \* useState<TriviaQuestion | null>, the answer or NoQuestion
  currentGame,       \* useState<MiniGameType | null>
  pokeCount,         \* pokeCountRef.current of useGuardianInteraction
  tapCount,          \* tapCountRef.current.count
  ops,               \* handlers run so far in the vitals specification
  \* ---- web variant (AuraliaHome)
  vitals,            \* consciousness.expression.vitals
  emotional,         \* consciousness.expression.emotional
  \* ---- consciousness memory (auralia/consciousness.ts and the lib variant)
  memory,            \* consciousness.memory of the auralia variant
  libMemory,         \* state.memory of the lib variant
  log,               \* every entry recordExperience has recorded, in order
  libLog,            \* every entry updateConsciousness has recorded, in order
  script,            \* which experiences the caller is going to record
  \* ---- breedGenomes (evolution.ts)
  breedParent1,      \* the arguments of the call, in twentieths
  breedParent2,
  breedDraws,        \* what randomFn returned during the call, in twentieths
  breedChild,        \* the genome returned, or NoGenome
  \* ---- the Fibonacci core (mossPrimeSeed)
  fibN,              \* the argument n
  fibResult,         \* the function applied last and its result
  \* ---- the field of initField (mossPrimeSeed)
  seedBI,            \* const seedBI
  s0, s1,            \* the xorshift state words
  prngRet,           \* what the last prng() returned, as the numerator of n / 2^64
  hashRet,           \* per message: what the first and the last hash(msg) returned
  sigilRet,          \* per seed: what the first and the last generateSigilPoints returned
  fieldCalls,        \* calls made on the field so far
  \* ---- persistence of the consciousness (lib/persistence.ts, hooks/useConsciousness.ts)
  storage,           \* localStorage: auralia_consciousness and auralia_version
  isLoaded,          \* useState(false)
  saveTimer,         \* the debounce timer of the auto-save effect is pending
  loadRet,           \* what the last loadConsciousness returned
  \* ---- the auto-save interval of the main component
  intervalAge,       \* time since the save interval was created or fired last
  sinceSave,         \* time since the mount or the last saveGuardianState
  \* ---- the Tetris game (TetrisGame)
  score,             \* useState(0)
  gameOver,          \* useState(false)
  hasWon,            \* useState(false)
  onWinCalls,        \* calls of onWin since the game was mounted or reset
  \* ---- the poke refs of useGuardianInteraction
  clock,             \* Date.now()
  lastPokeTime,      \* lastPokeTimeRef.current
  pokeLog,           \* the pokes made: when, and the reaction emitted
  \* ---- the identity of the consciousness
  identityTraits,    \* consciousness.identity.traits
  \* ---- the functions of the emotional response and of evolution.ts
  evoGenome,         \* the genome handed to calculateEvolution
  result,            \* the function applied last and what it returned
  \* ---- the Snake game (SnakeGame)
  segments,          \* useState<SnakeSegment[]>, head first
  food,              \* useState<{ x, y }>
  direction,         \* useState<SnakeDirection>
  snakeScore,        \* useState(0)
  snakeOver,         \* useState(false): gameOver
  paused,            \* useState(false)
  snakeWon,          \* useState(false): hasWon
  highScore,         \* usePersistentNumber('snakeHighScore', 0)
  snakeCalls,        \* the callbacks of the props the last step invoked
  lastApplied,       \* the direction the last tick of this game moved the head in
  ticks,             \* ticks run so far
  \* ---- the board of the Tetris game (TetrisGame)
  board,             \* useState<Board>: rows from the top, cells 0 or 1
  currentPiece,      \* useState<TetrisPiece | null>
  lastLock,          \* the last lock: by whom, the piece merged, the piece and board before
  dropOps            \* handlers of the board run so far

aiVars == <<mode, focusedSigil, timers, timerRef, effectPending, reseedPending,
            calls, draw, aiConfig, seedName>>
statVars == <<energy, curiosity, bond, health, genome>>
gameVars == <<bondHistory, offspring, gamesWon, totalInteractions, breedingPartner,
              whisper, prngDraws, activatedPoints, patternChallenge, triviaQuestion,
              currentGame, pokeCount, tapCount, ops>>
webVars == <<vitals, emotional>>
\* everything outside useGuardianAI and the four vitals
memVars == <<memory, libMemory, log, libLog, script>>
breedVars == <<breedParent1, breedParent2, breedDraws, breedChild>>
fibVars == <<fibN, fibResult>>
fieldVars == <<seedBI, s0, s1, prngRet, hashRet, sigilRet, fieldCalls>>
storeVars == <<storage, isLoaded, saveTimer, loadRet>>
saveVars == <<intervalAge, sinceSave>>
tetrisVars == <<score, gameOver, hasWon, onWinCalls>>
pokeVars == <<clock, lastPokeTime, pokeLog>>
fnVars == <<evoGenome, result>>
snakeVars == <<segments, food, direction, snakeScore, snakeOver, paused, snakeWon,
               highScore, snakeCalls, lastApplied, ticks>>
boardVars == <<board, currentPiece, lastLock, dropOps>>
arcadeVars == <<snakeVars, boardVars>>
moreVars == <<pokeVars, identityTraits, fnVars, arcadeVars>>
extVars == <<fieldVars, storeVars, saveVars, tetrisVars, moreVars>>
pureVars == <<memVars, breedVars, fibVars, extVars>>
restVars == <<gameVars, webVars, pureVars>>
vars == <<aiVars, statVars, restVars>>

-----------------------------------------------------------------------------
(* Bounds of the model *)

\* a duration draw Math.random() is q / DurSteps, q in 0 .. DurSteps-1
DurSteps == 2
\* sigil points handed to the hook (7 in the component)
NumSigils == 2
\* cap on simultaneously pending timers (never reached by the code)
MaxPending == 3
\* Date.now() when the component is mounted, in ms
MountTime == 1000

-----------------------------------------------------------------------------
(* MossPrimeSeed core: the digit strings and the field derived from them *)

Min(a, b) == IF a <= b THEN a ELSE b
Max(a, b) == IF a >= b THEN a ELSE b

RECURSIVE SeqSum(_)
SeqSum(s) == IF s = <<>> THEN 0 ELSE Head(s) + SeqSum(Tail(s))

\* s.slice(-n), n > 0
SliceLast(s, n) == IF Len(s) <= n THEN s ELSE SubSeq(s, Len(s) - n + 1, Len(s))

\* the ^ of two non-negative numbers
RECURSIVE Xor(_, _)
Xor(a, b) ==
  IF a = 0 /\ b = 0 THEN 0
  ELSE (((a % 2) + (b % 2)) % 2) + 2 * Xor(a \div 2, b \div 2)

\* the % of JavaScript: the result has the sign of the dividend
JsMod(x, m) == IF x >= 0 THEN x % m ELSE 0 - ((0 - x) % m)

\* toDigits(RED), toDigits(BLACK), toDigits(BLUE)
RED ==
  <<1, 1, 3, 0, 3, 1, 4, 9, 1, 4, 9, 3, 5, 8, 5, 3, 8, 9, 5, 4,
    3, 7, 7, 8, 7, 7, 4, 5, 9, 0, 9, 9, 7, 0, 7, 9, 6, 1, 9, 6,
    1, 7, 5, 2, 5, 7, 2, 1, 5, 6, 7, 3, 3, 2, 3, 3, 6, 5, 1, 0>>
BLACK ==
  <<0, 1, 1, 2, 3, 5, 8, 3, 1, 4, 5, 9, 4, 3, 7, 0, 7, 7, 4, 1,
    5, 6, 1, 7, 8, 5, 3, 8, 1, 9, 0, 9, 9, 8, 7, 5, 2, 7, 9, 6,
    5, 1, 6, 7, 3, 0, 3, 3, 6, 9, 5, 4, 9, 3, 2, 5, 7, 2, 9, 1>>
BLUE ==
  <<0, 1, 2, 7, 7, 6, 3, 2, 9, 7, 8, 5, 8, 9, 3, 0, 3, 6, 1, 1,
    8, 9, 6, 7, 1, 4, 5, 4, 7, 9, 0, 9, 8, 3, 3, 4, 7, 8, 1, 3,
    2, 5, 2, 1, 7, 0, 7, 4, 9, 9, 2, 1, 4, 3, 9, 6, 5, 6, 3, 1>>

\* initField: pulse and ring do not depend on the seed name
pulse == [i \in 1 .. 60 |->
            Xor(Xor(RED[i], BLACK[(((i - 1) * 7) % 60) + 1]),
                BLUE[(((i - 1) * 13) % 60) + 1]) % 10]
ring == [i \in 1 .. 60 |-> (RED[i] + BLACK[i] + BLUE[i]) % 10]

\* one axis of computeGenome, in twentieths: Math.min(100, x % 100)
\* a genome axis that is neither wrapped nor capped
Axis_Raw(x) == x
Axis(x) == Min(20 * 100, JsMod(x, 20 * 100))

\* computeGenome for vitals given in halves, result in twentieths:
\*   20 * (pulseSum * 1.2) = 24 pulseSum,  20 * (energy * 0.7) = 7 * (2 energy),
\*   20 * ((100 - health) * 0.3) = 3 * (200 - 2 health), and so on
computeGenome(e, c, b, h) ==
  LET pulseSum == SeqSum(SubSeq(pulse, 1, 20))
      ringSum  == SeqSum(SubSeq(ring, 1, 20))
  IN [red60   |-> Axis(24 * pulseSum + 7 * e + 3 * (2 * 100 - h)),
      blue60  |-> Axis(22 * ringSum + 6 * c + 5 * b),
      black60 |-> Axis(16 * (pulseSum + ringSum) + 4 * e + 6 * b)]

\* Math.round of a value in twentieths, as twentieths of the integer result
Round(u) == 20 * ((u + 10) \div 20)

\* the partner genome of breedGuardian, in twentieths
partnerGenome ==
  LET p20 == SeqSum(SubSeq(pulse, 1, 20))
      r20 == SeqSum(SubSeq(ring, 1, 20))
      pr10 == SeqSum(SubSeq(pulse, 1, 10)) + SeqSum(SubSeq(ring, 1, 10))
  IN [red60   |-> Min(20 * 100, Round(JsMod(30 * p20, 20 * 100))),
      blue60  |-> Min(20 * 100, Round(JsMod(26 * r20, 20 * 100))),
      black60 |-> Min(20 * 100, Round(JsMod(22 * pr10, 20 * 100)))]

\* every render computes the genome from the vitals it sees
Render == genome' = computeGenome(energy', curiosity', bond', health')

-----------------------------------------------------------------------------
(* MossPrimeSeed core: the field's seed, prng and hash.  A bigint is kept   *)
(* as the sequence of its hexadecimal digits, least significant first and   *)
(* without leading zeros (0n is the empty sequence); a string is kept as    *)
(* the sequence of its char codes.                                          *)

Digit(x, i) == IF 1 <= i /\ i <= Len(x) THEN x[i] ELSE 0

RECURSIVE Norm(_)
Norm(x) ==
  IF Len(x) > 0 /\ x[Len(x)] = 0 THEN Norm(SubSeq(x, 1, Len(x) - 1))
  ELSE SubSeq(x, 1, Len(x))

\* a hexadecimal literal 0x...n, written most significant digit first
FromHex(h) == Norm([i \in 1 .. Len(h) |-> h[Len(h) + 1 - i]])

\* BigInt(n) of a non-negative number
RECURSIVE FromNat(_)
FromNat(n) == IF n = 0 THEN <<>> ELSE <<n % 16>> \o FromNat(n \div 16)

\* a ^ b
BigXor(a, b) ==
  Norm([i \in 1 .. Max(Len(a), Len(b)) |-> Xor(Digit(a, i), Digit(b, i))])

\* x << n
BigShl(x, n) ==
  LET q == n \div 4
      m == 2 ^ (n % 4)
  IN Norm([j \in 1 .. (Len(x) + q + 1) |->
             ((Digit(x, j - q) * m) % 16) + ((Digit(x, j - q - 1) * m) \div 16)])

\* x >> n
BigShr(x, n) ==
  LET q == n \div 4
      r == n % 4
  IN Norm([j \in 1 .. Max(0, Len(x) - q) |->
             (Digit(x, j + q) \div (2 ^ r)) + ((Digit(x, j + q + 1) * (2 ^ (4 - r))) % 16)])

\* x & ((1n << n) - 1n)
BigMask(x, n) ==
  LET q == n \div 4
  IN Norm([j \in 1 .. Min(Len(x), q + 1) |->
             IF j <= q THEN x[j] ELSE x[j] % (2 ^ (n % 4))])

\* a + b over the digits lo .. hi with a carry coming in: the digits of the
\* sum and the carry going out (a digit of a may exceed 15 inside BigMul)
RECURSIVE AddRange(_, _, _, _, _)
AddRange(a, b, lo, hi, carry) ==
  IF lo > hi THEN [digits |-> <<>>, carry |-> carry]
  ELSE IF lo = hi
  THEN LET t == Digit(a, lo) + Digit(b, lo) + carry
       IN [digits |-> <<t % 16>>, carry |-> t \div 16]
  ELSE LET mid  == (lo + hi) \div 2
           low  == AddRange(a, b, lo, mid, carry)
           high == AddRange(a, b, mid + 1, hi, low.carry)
       IN [digits |-> low.digits \o high.digits, carry |-> high.carry]
BigAdd(a, b) ==
  LET sum == AddRange(a, b, 1, Max(Len(a), Len(b)), 0)
  IN Norm(sum.digits \o FromNat(sum.carry))

\* a * b: the sums of the digit products of each weight, then the carries
BigMul(a, b) ==
  LET column(k) == SeqSum([j \in 1 .. Len(b) |-> Digit(a, k + 1 - j) * b[j]])
      columns   == SubSeq([k \in 1 .. (Len(a) + Len(b)) |-> column(k)], 1, Len(a) + Len(b))
  IN BigAdd(columns, <<>>)

\* 64-bit mixing function
mix64(x0) ==
  LET x1 == BigXor(x0, FromHex(<<9, 14, 3, 7, 7, 9, 11, 9, 7, 15, 4, 10, 7, 12, 1, 5>>))
      x2 == BigXor(x1, BigShr(x1, 30))
      x3 == BigMul(x2, FromHex(<<11, 15, 5, 8, 4, 7, 6, 13, 1, 12, 14, 4, 14, 5, 11, 9>>))
      x4 == BigXor(x3, BigShr(x3, 27))
      x5 == BigMul(x4, FromHex(<<9, 4, 13, 0, 4, 9, 11, 11, 1, 3, 3, 1, 1, 1, 14, 11>>))
      x6 == BigXor(x5, BigShr(x5, 31))
  IN BigMask(x6, 64)

\* interleave3(red, black, blue), as digits
interleave3(a, b, c) ==
  LET n == Min(Len(a), Min(Len(b), Len(c)))
  IN [i \in 1 .. (3 * n) |->
        LET k == ((i - 1) \div 3) + 1
        IN CASE (i - 1) % 3 = 0 -> a[k]
             [] (i - 1) % 3 = 1 -> b[k]
             [] OTHER -> c[k]]

\* base10ToHex of the string whose chars are digitStr[i] + 48, over the chars
\* lo .. hi (counted from 0): the hexadecimal digits appended to h and the
\* value of acc afterwards; acc is a 32-bit unsigned number (>>> 0)
RECURSIVE base10ToHexRange(_, _, _, _)
base10ToHexRange(digitStr, lo, hi, acc) ==
  IF lo > hi THEN [h |-> <<>>, acc |-> acc]
  ELSE IF lo = hi
  THEN LET next == BigMask(BigAdd(BigMul(acc, FromNat(17)), FromNat(digitStr[lo + 1])), 32)
       IN [h |-> <<Xor(Digit(next, 1), (lo * 7) % 16)>>, acc |-> next]
  ELSE LET mid  == (lo + hi) \div 2
           low  == base10ToHexRange(digitStr, lo, mid, acc)
           high == base10ToHexRange(digitStr, mid + 1, hi, low.acc)
       IN [h |-> low.h \o high.h, acc |-> high.acc]
base10ToHex(digitStr) == base10ToHexRange(digitStr, 0, Len(digitStr) - 1, <<>>).h

\* the seed names typed in, and the messages hashed
SeedNames == {"AURALIA", "X"}
Messages == {"X", "DEMO_SEED"}

\* the char codes of the seed names and of the messages hashed
CharCodes ==
  [AURALIA |-> <<65, 85, 82, 65, 76, 73, 65>>,
   X |-> <<88>>,
   DEMO_SEED |-> <<68, 69, 77, 79, 95, 83, 69, 69, 68>>]

\* seedBI of initField(name)
SeedBI(name) ==
  FromHex(base10ToHex(interleave3(RED, BLACK, BLUE)
                      \o [i \in 1 .. Len(CharCodes[name]) |-> CharCodes[name][i] - 48]))

\* initField(name): seedBI and the initial state words
initField(name) ==
  LET seed == SeedBI(name)
  IN [seedBI |-> seed,
      s0 |-> mix64(seed),
      s1 |-> mix64(BigXor(seed, FromHex(<<10, 5, 10, 5, 10, 5, 10, 5,
                                          10, 5, 10, 5, 10, 5, 10, 5>>)))]
Fields == [name \in SeedNames |-> initField(name)]

\* the xorshift step of prng: the new s0 and s1
XorShift(x, y) ==
  LET x1 == BigXor(x, BigShl(x, 23))
      x2 == BigXor(x1, BigShr(x1, 17))
      x3 == BigXor(x2, BigXor(y, BigShr(y, 26)))
  IN [s0 |-> y, s1 |-> x3]

\* Number(sum) of a bigint below 2^64: the nearest double, ties to even,
\* a double having 53 significant bits
Number(sum) ==
  LET top  == Digit(sum, Len(sum))
      bits == (4 * Len(sum)) - (IF top >= 8 THEN 0 ELSE IF top >= 4 THEN 1
                                ELSE IF top >= 2 THEN 2 ELSE 3)
      e    == bits - 53
      kept == BigShr(sum, e)
      rest == BigMask(sum, e)
      half == BigShl(<<1>>, e - 1)
      up   == \/ Len(BigMask(rest, e - 1)) > 0 /\ Len(BigShr(rest, e - 1)) > 0
              \/ rest = half /\ Digit(kept, 1) % 2 = 1
  IN IF sum = <<>> \/ e <= 0 THEN sum
     ELSE BigShl(IF up THEN BigAdd(kept, <<1>>) ELSE kept, e)

\* hash(msg): h starts from seedBI; a hash that started from the prng state
\* would read s0 instead
HashStart_FromState(seed, state0) == state0
HashStart(seed, state0) == seed

RECURSIVE hashFrom(_, _, _)
hashFrom(h, msg, i) ==
  IF i >= Len(msg) THEN h
  ELSE LET mixed == mix64(BigXor(h, BigAdd(FromNat(msg[i + 1]),
                                           BigMul(FromNat(i), FromNat(1315423911)))))
       IN IF Len(mixed) <= 16 THEN hashFrom(mixed, msg, i + 1) ELSE <<>>
hash(seed, state0, msg) == hashFrom(HashStart(seed, state0), msg, 0)

\* (h >> n).toString(16).slice(0, 4): the first four hexadecimal digits
HexPrefix(x) ==
  IF x = <<>> THEN <<0>>
  ELSE [i \in 1 .. Min(4, Len(x)) |-> x[Len(x) + 1 - i]]

\* generateSigilPoints(field, seed, count): a point is kept as the byte its
\* angle is computed from, the nibble its radius is computed from and its hash
generateSigilPoints(h, count) ==
  [k \in 1 .. count |->
     LET i == k - 1
     IN [angle  |-> BigMask(BigShr(h, i * 8), 8),
         radius |-> BigMask(BigShr(h, (i * 8) + 4), 4),
         hash   |-> HexPrefix(BigShr(h, i * 8))]]

-----------------------------------------------------------------------------
(* evolution.ts: breedGenomes.  A draw of randomFn is k / 20, k in 0 .. 19;  *)
(* parents are in twentieths, the arithmetic inside is in fortieths.        *)

\* the draws a mutation is explored with: lowest variance, none, highest
MutateDraws == {0, 10, 19}
\* the draws the boost is decided with: r < 0.05 and the first r that is not
BoostDraws == {0, 1}
RandomDraws == {d \in [1 .. 4 -> MutateDraws \cup BoostDraws] :
                  /\ \A i \in 1 .. 3 : d[i] \in MutateDraws
                  /\ d[4] \in BoostDraws}

\* mutate: Math.max(0, Math.min(100, value + (randomFn() - 0.5) * 30))
mutate(value, k) == Max(0, Min(40 * 100, value + 60 * k - 600))

\* a boost that forgets the cap
Boost_NoMin(v) == v + 40 * 10
\* Math.min(100, axis + 10)
Boost(v) == Min(40 * 100, v + 40 * 10)

\* Math.round of a value in fortieths, as twentieths of the integer result
Round40(u) == 20 * ((u + 20) \div 40)

breedGenomes(parent1, parent2, draws) ==
  LET red   == mutate(parent1.red60 + parent2.red60, draws[1])
      blue  == mutate(parent1.blue60 + parent2.blue60, draws[2])
      black == mutate(parent1.black60 + parent2.black60, draws[3])
      boost == draws[4] < 1
      maxParent1 == Max(parent1.red60, Max(parent1.blue60, parent1.black60))
      maxParent2 == Max(parent2.red60, Max(parent2.blue60, parent2.black60))
      onRed   == maxParent1 = parent1.red60 \/ maxParent2 = parent2.red60
      onBlue  == ~onRed /\ (maxParent1 = parent1.blue60 \/ maxParent2 = parent2.blue60)
      onBlack == ~onRed /\ ~onBlue
  IN [red60   |-> Round40(IF boost /\ onRed THEN Boost(red) ELSE red),
      blue60  |-> Round40(IF boost /\ onBlue THEN Boost(blue) ELSE blue),
      black60 |-> Round40(IF boost /\ onBlack THEN Boost(black) ELSE black)]

-----------------------------------------------------------------------------
(* useGuardianAI *)

Modes == {"idle", "observing", "focusing", "playing", "dreaming"}
NonIdle == Modes \ {"idle"}
NoSigil == -1
NoTimer == 0

DEFAULT_AI_CONFIG ==
  [timings |-> [idle      |-> [min |-> 3000, max |-> 8000],
                observing |-> [min |-> 5000, max |-> 12000],
                focusing  |-> [min |-> 2000, max |-> 4000],
                playing   |-> [min |-> 3000, max |-> 6000],
                dreaming  |-> [min |-> 8000, max |-> 15000]],
   probabilities |-> [idleToDream |-> 15, idleToObserve |-> 50, idleToFocus |-> 25]]

\* the draws of Math.random() that decide the branch, around every threshold
RandPercents == {0, 14, 15, 49, 50, 59, 60, 74, 75, 99}

\* min + Math.random() * (max - min), in units of 1/DurSteps ms
Duration(t, q) == DurSteps * t.min + q * (t.max - t.min)

\* the values a render closes over: mode, options.stats, options.config, sigilPoints
Closure == [mode |-> mode, energy |-> energy, curiosity |-> curiosity,
            config |-> aiConfig, seed |-> seedName]

\* the threshold of the focusing branch, were it checked on its own
FocusThreshold_Independent(p) == p.idleToFocus
\* config.probabilities.idleToFocus + config.probabilities.idleToObserve
FocusThreshold(p) == p.idleToFocus + p.idleToObserve

\* what a call of transitionToNextMode drew at `const rand = Math.random()`
\* and the stats and thresholds it read; NoDraw when the step made no call
NoDraw == [rand |-> -1]
Drawn(env, rand) ==
  [rand |-> rand, energy |-> env.energy, curiosity |-> env.curiosity,
   probabilities |-> env.config.probabilities]

\* one call of transitionToNextMode in the render `env`: the setMode it makes
\* ("none" when it makes none) and the timer it arms
transitionToNextMode(env, rand, q) ==
  LET cfg == env.config
      p   == cfg.probabilities
      arm(kind, m) == [kind |-> kind, timing |-> m,
                       dur |-> Duration(cfg.timings[m], q), env |-> env]
  IN IF env.mode = "idle"
     THEN IF env.energy < 2 * 30 /\ rand < p.idleToDream
          THEN [setMode |-> "dreaming", timer |-> arm("dreamDone", "dreaming")]
          ELSE IF rand < p.idleToObserve
          THEN [setMode |-> "observing", timer |-> arm("observeDone", "observing")]
          ELSE IF env.curiosity > 2 * 40 /\ rand < FocusThreshold(p)
          THEN [setMode |-> "focusing", timer |-> arm("focusDone", "focusing")]
          ELSE [setMode |-> "none", timer |-> arm("retry", "idle")]
     ELSE [setMode |-> "none", timer |-> arm("retry", "idle")]

TimerIds(ts) == {t.id : t \in ts}

\* setTimeout: a handle that names no pending timer and is not the one in timerRef
FreshId(ts) == CHOOSE i \in 1 .. (MaxPending + 2) : i \notin TimerIds(ts) \cup {timerRef}

\* timerRef.current = setTimeout(cb, d)
SetTimeout(ts, rec) ==
  ts \cup {[id |-> FreshId(ts), kind |-> rec.kind, timing |-> rec.timing,
            dur |-> rec.dur, env |-> rec.env]}

\* clearTimeout(id)
ClearTimeout(ts, id) == {t \in ts : t.id # id}

\* a cleanup that forgets to clear the timer
EffectCleanup_NoClear(ts) == ts

\* the cleanup of the effect: if (timerRef.current) clearTimeout(timerRef.current)
EffectCleanup(ts) == IF timerRef # NoTimer THEN ClearTimeout(ts, timerRef) ELSE ts

\* the passive effect of a committed render runs: cleanup of the previous
\* effect, then the effect body
FlushEffects ==
  /\ effectPending
  /\ LET ts == EffectCleanup(timers)
     IN IF mode = "idle"
        THEN \E rand \in RandPercents, q \in 0 .. (DurSteps - 1) :
               LET tr == transitionToNextMode(Closure, rand, q)
               IN /\ Cardinality(ts) < MaxPending
                  /\ timers' = SetTimeout(ts, tr.timer)
                  /\ timerRef' = FreshId(ts)
                  /\ mode' = IF tr.setMode = "none" THEN mode ELSE tr.setMode
                  /\ effectPending' = (tr.setMode # "none")
                  /\ draw' = Drawn(Closure, rand)
        ELSE /\ timers' = ts
             /\ effectPending' = FALSE
             /\ draw' = NoDraw
             /\ UNCHANGED <<mode, timerRef>>
  /\ reseedPending' = FALSE
  /\ calls' = {}
  /\ UNCHANGED <<focusedSigil, aiConfig, seedName, statVars, restVars>>

\* the timer armed on entering dreaming fires
FireDreamTimer ==
  \E t \in timers :
    /\ t.kind = "dreamDone"
    /\ timers' = timers \ {t}
    /\ mode' = "idle"
    /\ calls' = {"onDreamComplete"}
    /\ draw' = NoDraw
    /\ effectPending' = TRUE
    /\ UNCHANGED <<focusedSigil, timerRef, reseedPending, aiConfig, seedName, statVars, restVars>>

\* an observe timer that goes on to focusing
FireObserveTimer_ToFocusing ==
  \E t \in timers :
    /\ t.kind = "observeDone"
    /\ timers' = timers \ {t}
    /\ mode' = "focusing"
    /\ calls' = {}
    /\ draw' = NoDraw
    /\ effectPending' = TRUE
    /\ UNCHANGED <<focusedSigil, timerRef, reseedPending, aiConfig, seedName, statVars, restVars>>

\* the timer armed on entering observing fires
FireObserveTimer ==
  \E t \in timers :
    /\ t.kind = "observeDone"
    /\ timers' = timers \ {t}
    /\ mode' = "idle"
    /\ calls' = {}
    /\ draw' = NoDraw
    /\ effectPending' = (effectPending \/ mode # "idle")
    /\ UNCHANGED <<focusedSigil, timerRef, reseedPending, aiConfig, seedName, statVars, restVars>>

\* the timer armed on entering focusing fires: playing begins
FireFocusTimer ==
  \E t \in timers, i \in 0 .. (NumSigils - 1), q \in 0 .. (DurSteps - 1) :
    /\ t.kind = "focusDone"
    /\ LET ts == timers \ {t}
       IN /\ Cardinality(ts) < MaxPending
          /\ timers' = SetTimeout(ts, [kind |-> "playDone", timing |-> "playing",
                                       dur |-> Duration(t.env.config.timings.playing, q),
                                       env |-> t.env])
          /\ timerRef' = FreshId(ts)
    /\ mode' = "playing"
    /\ focusedSigil' = i
    /\ calls' = {"onFocusChange", "onPlay"}
    /\ draw' = NoDraw
    /\ effectPending' = TRUE
    /\ UNCHANGED <<reseedPending, aiConfig, seedName, statVars, restVars>>

\* a play timer that leaves the focus where it is
FirePlayTimer_KeepFocus ==
  \E t \in timers :
    /\ t.kind = "playDone"
    /\ timers' = timers \ {t}
    /\ focusedSigil' = focusedSigil
    /\ mode' = "idle"
    /\ calls' = {"onFocusChange"}
    /\ draw' = NoDraw
    /\ effectPending' = TRUE
    /\ UNCHANGED <<timerRef, reseedPending, aiConfig, seedName, statVars, restVars>>

\* the timer armed on entering playing fires
FirePlayTimer ==
  \E t \in timers :
    /\ t.kind = "playDone"
    /\ timers' = timers \ {t}
    /\ focusedSigil' = NoSigil
    /\ mode' = "idle"
    /\ calls' = {"onFocusChange"}
    /\ draw' = NoDraw
    /\ effectPending' = TRUE
    /\ UNCHANGED <<timerRef, reseedPending, aiConfig, seedName, statVars, restVars>>

\* the timer of the idle self-loop fires: transitionToNextMode of its render
FireIdleTimer ==
  \E t \in timers, rand \in RandPercents, q \in 0 .. (DurSteps - 1) :
    /\ t.kind = "retry"
    /\ LET ts == timers \ {t}
           tr == transitionToNextMode(t.env, rand, q)
       IN /\ Cardinality(ts) < MaxPending
          /\ timers' = SetTimeout(ts, tr.timer)
          /\ timerRef' = FreshId(ts)
          /\ mode' = IF tr.setMode = "none" THEN mode ELSE tr.setMode
          /\ effectPending' = (effectPending \/ mode' # mode)
          /\ draw' = Drawn(t.env, rand)
    /\ calls' = {}
    /\ UNCHANGED <<focusedSigil, reseedPending, aiConfig, seedName, statVars, restVars>>

\* the component renders again: the options literal is a new object, so the
\* transition callback is re-created
Rerender ==
  /\ ~effectPending
  /\ effectPending' = TRUE
  /\ calls' = {}
  /\ draw' = NoDraw
  /\ UNCHANGED <<mode, focusedSigil, timers, timerRef, reseedPending, aiConfig,
                 seedName, statVars, restVars>>

\* energy or curiosity change (any vitals handler): options.stats changes
AiStatLevels == {2 * 20, 2 * 50}
StatsChange ==
  \E e \in AiStatLevels, c \in AiStatLevels :
    /\ <<e, c>> # <<energy, curiosity>>
    /\ energy' = e
    /\ curiosity' = c
    /\ effectPending' = TRUE
    /\ calls' = {}
    /\ draw' = NoDraw
    /\ UNCHANGED <<mode, focusedSigil, timers, timerRef, reseedPending, aiConfig,
                   seedName, bond, health, restVars>>
    /\ Render

\* the AI tuning sliders
SetTimingMax(m, v) ==
  /\ aiConfig' = [aiConfig EXCEPT !.timings[m].max = v]
  /\ aiConfig' # aiConfig
  /\ effectPending' = TRUE
  /\ calls' = {}
  /\ draw' = NoDraw
  /\ UNCHANGED <<mode, focusedSigil, timers, timerRef, reseedPending, seedName, statVars, restVars>>

\* the idle-duration max slider has the range 1 .. 20
SetIdleMax == SetTimingMax("idle", 20)

SetDreamProbability ==
  /\ aiConfig' = [aiConfig EXCEPT !.probabilities.idleToDream = 60]
  /\ aiConfig' # aiConfig
  /\ effectPending' = TRUE
  /\ calls' = {}
  /\ draw' = NoDraw
  /\ UNCHANGED <<mode, focusedSigil, timers, timerRef, reseedPending, seedName, statVars, restVars>>

ResetAiConfig ==
  /\ aiConfig # DEFAULT_AI_CONFIG
  /\ aiConfig' = DEFAULT_AI_CONFIG
  /\ effectPending' = TRUE
  /\ calls' = {}
  /\ draw' = NoDraw
  /\ UNCHANGED <<mode, focusedSigil, timers, timerRef, reseedPending, seedName, statVars, restVars>>

\* the seed name input: a new Field, new sigil points
Reseed ==
  \E n \in SeedNames \ {seedName} :
    /\ seedName' = n
    /\ reseedPending' = TRUE
    /\ effectPending' = TRUE
    /\ calls' = {}
    /\ draw' = NoDraw
    /\ UNCHANGED <<mode, focusedSigil, timers, timerRef, aiConfig, statVars, restVars>>

-----------------------------------------------------------------------------
(* State of the main component (AuraliaMetaPet) and of the web page after mount *)

NoQuestion == -1
NoGame == "null"
NoPattern == [sequence |-> <<>>, userSequence |-> <<>>, active |-> FALSE]

InitGame ==
  /\ bondHistory = <<>>
  /\ offspring = <<>>
  /\ gamesWon = 0
  /\ totalInteractions = 0
  /\ breedingPartner = ""
  /\ whisper = "The Guardian awakens..."
  /\ prngDraws = 0
  /\ activatedPoints = {}
  /\ patternChallenge = NoPattern
  /\ triviaQuestion = NoQuestion
  /\ currentGame = NoGame
  /\ pokeCount = 0
  /\ tapCount = 0
  /\ ops = 0

\* initializeConsciousness
InitWeb ==
  /\ vitals = [mood |-> 70, energy |-> 75, hunger |-> 50, hygiene |-> 80]
  /\ emotional = "calm"

\* PersonalityTraits of the consciousness (DEFAULT_TRAITS of the web page)
DEFAULT_TRAITS ==
  [energy |-> 72, curiosity |-> 68, affection |-> 65, independence |-> 55,
   discipline |-> 60, playfulness |-> 75, social |-> 70]

Emotions == {"calm", "playful", "affectionate"}
NoDrift == <<>>
NoGenome == [red60 |-> -1, blue60 |-> -1, black60 |-> -1]
NoResult == [fn |-> "none", value |-> <<>>]

\* initializeConsciousness: memory
EmptyMemory ==
  [actionHistory |-> <<>>, emotionalPatterns |-> [e \in Emotions |-> 0],
   personalityDrift |-> NoDrift]

InitMem ==
  /\ memory = EmptyMemory
  /\ libMemory = EmptyMemory
  /\ log = <<>>
  /\ libLog = <<>>

InitBreed ==
  /\ breedParent1 = [red60 |-> 0, blue60 |-> 0, black60 |-> 0]
  /\ breedParent2 = [red60 |-> 0, blue60 |-> 0, black60 |-> 0]
  /\ breedDraws = <<>>
  /\ breedChild = NoGenome

InitFib ==
  /\ fibN = 0
  /\ fibResult = NoResult

\* nothing returned yet
NoValue == <<-1>>
NoCalls == [msg \in Messages |-> [first |-> NoValue, firstState |-> NoValue,
                                  last |-> NoValue, lastState |-> NoValue]]

InitFieldOf(field) ==
  /\ seedBI = field.seedBI
  /\ s0 = field.s0
  /\ s1 = field.s1
  /\ prngRet = NoValue
  /\ hashRet = NoCalls
  /\ sigilRet = NoCalls
  /\ fieldCalls = 0

\* localStorage.getItem of a key that is not set; a key that is set holds <<item>>
NoItem == <<>>
\* nothing loaded: no state returned and nothing deserialized
NoLoad == [state |-> <<>>, deserialized |-> FALSE]
EmptyStorage == [auralia_consciousness |-> NoItem, auralia_version |-> NoItem]

InitStore ==
  /\ storage = EmptyStorage
  /\ isLoaded = FALSE
  /\ saveTimer = FALSE
  /\ loadRet = NoLoad

InitSave ==
  /\ intervalAge = 0
  /\ sinceSave = 0

InitTetris ==
  /\ score = 0
  /\ gameOver = FALSE
  /\ hasWon = FALSE
  /\ onWinCalls = 0

\* the page was opened at MountTime; useRef(0) for the time of the last poke
InitPoke ==
  /\ clock = MountTime
  /\ lastPokeTime = 0
  /\ pokeLog = <<>>

InitFn ==
  /\ evoGenome = [red60 |-> 0, blue60 |-> 0, black60 |-> 0]
  /\ result = NoResult

\* the snake of useState and resetGame
startingSnake == <<[x |-> 5, y |-> 5], [x |-> 4, y |-> 5], [x |-> 3, y |-> 5]>>

\* SnakeGame after its first render, the food still the one of useState
InitSnake ==
  /\ segments = startingSnake
  /\ food = [x |-> 10, y |-> 10]
  /\ direction = "right"
  /\ snakeScore = 0
  /\ snakeOver = FALSE
  /\ paused = FALSE
  /\ snakeWon = FALSE
  /\ highScore = 0
  /\ snakeCalls = <<>>
  /\ lastApplied = "none"
  /\ ticks = 0

BOARD_HEIGHT == 20
BOARD_WIDTH == 10

emptyBoard == [y \in 1 .. BOARD_HEIGHT |-> [x \in 1 .. BOARD_WIDTH |-> 0]]

\* currentPiece = null
NoPiece == [shape |-> <<>>, x |-> 0, y |-> 0]

NoLock == [by |-> "none", piece |-> NoPiece, from |-> NoPiece, on |-> emptyBoard]

\* TetrisGame after its first render
InitBoard ==
  /\ board = emptyBoard
  /\ currentPiece = NoPiece
  /\ lastLock = NoLock
  /\ dropOps = 0

InitArcade == InitSnake /\ InitBoard

InitMore == InitPoke /\ identityTraits = DEFAULT_TRAITS /\ InitFn /\ InitArcade

InitExt ==
  InitFieldOf(Fields["AURALIA"]) /\ InitStore /\ InitSave /\ InitTetris /\ InitMore

InitPure == InitMem /\ script = "play" /\ InitBreed /\ InitFib /\ InitExt

InitRest == InitGame /\ InitWeb /\ InitPure

InitAI ==
  /\ mode = "idle"
  /\ focusedSigil = NoSigil
  /\ timers = {}
  /\ timerRef = NoTimer
  /\ effectPending = TRUE
  /\ reseedPending = FALSE
  /\ calls = {}
  /\ draw = NoDraw
  /\ aiConfig = DEFAULT_AI_CONFIG
  /\ seedName = "AURALIA"

InitStats ==
  /\ energy = 2 * 50
  /\ curiosity = 2 * 50
  /\ bond = 2 * 50
  /\ health = 2 * 80
  /\ genome = computeGenome(energy, curiosity, bond, health)

Init == InitAI /\ InitStats /\ InitRest

\* the state after construction of everything but the script of the memory
\* specifications and the parts listed under moreVars
InitBase ==
  /\ InitAI
  /\ InitStats
  /\ InitGame
  /\ InitWeb
  /\ InitMem
  /\ InitBreed
  /\ InitFib
  /\ InitFieldOf(Fields["AURALIA"])
  /\ InitStore
  /\ InitSave
  /\ InitTetris

Next ==
  \/ FlushEffects
  \/ FireDreamTimer
  \/ FireObserveTimer
  \/ FireFocusTimer
  \/ FirePlayTimer
  \/ FireIdleTimer
  \/ Rerender
  \/ StatsChange
  \/ SetIdleMax
  \/ SetDreamProbability
  \/ ResetAiConfig
  \/ Reseed

Spec == Init /\ [][Next]_vars

\* the event loop runs every due callback: a pending effect is flushed and a
\* pending timer fires
FairSpec ==
  /\ Spec
  /\ WF_vars(FlushEffects)
  /\ WF_vars(FireDreamTimer)
  /\ WF_vars(FireObserveTimer)
  /\ WF_vars(FireFocusTimer)
  /\ WF_vars(FirePlayTimer)
  /\ WF_vars(FireIdleTimer)

-----------------------------------------------------------------------------
(* Claims about useGuardianAI *)

\* C1: every entry into dreaming, observing, focusing or playing is eventually
\* followed by mode = idle, when every armed and uncancelled timer fires
C1_EveryEntryReturnsToIdle == \A m \in NonIdle : (mode = m) ~> (mode = "idle")

\* C2: at every moment at most one timer armed by the hook is pending
C2_AtMostOnePendingTimer == Cardinality(timers) <= 1

\* a timer is pending, armed by the focus callback of a render that a reseed
\* has since replaced, with the effect of the reseed not yet flushed
C2_Witness ==
  /\ Cardinality(timers) = 1
  /\ reseedPending
  /\ \E t \in timers : t.kind = "playDone" /\ t.id = timerRef /\ t.env.seed # seedName

\* C3: when the hook's effect runs after the seed name changed, the timers
\* armed before the change are cancelled and the AI state is reset: a mode
\* other than idle becomes idle and focusedSigil becomes null
C3_ReseedResetsAiState ==
  [][(reseedPending /\ ~reseedPending') =>
       /\ \A t \in timers' : t.env.seed = seedName'
       /\ (mode # "idle" => mode' = "idle")
       /\ focusedSigil' = NoSigil]_vars

\* C4: a configuration with min > max is rejected, so that every armed duration
\* lies within min .. max of the timing of the configuration it was computed from
C4_ArmedDurationWithinRange ==
  \A t \in timers :
    LET tm == t.env.config.timings[t.timing]
    IN DurSteps * tm.min <= t.dur /\ t.dur <= DurSteps * tm.max

\* C17: every change of mode follows idle -> dreaming, observing or focusing,
\* dreaming -> idle, observing -> idle, focusing -> playing, playing -> idle,
\* and onDreamComplete is called only in a step from dreaming to idle
C17_ModeChangesFollowRelation ==
  [][/\ (mode' # mode =>
          <<mode, mode'>> \in {<<"idle", "dreaming">>, <<"idle", "observing">>,
                               <<"idle", "focusing">>, <<"dreaming", "idle">>,
                               <<"observing", "idle">>, <<"focusing", "playing">>,
                               <<"playing", "idle">>})
     /\ ("onDreamComplete" \in calls' => mode = "dreaming" /\ mode' = "idle")]_vars

\* a dream has just ended: the mode is idle again and onDreamComplete was called
C17_Witness == mode = "idle" /\ "onDreamComplete" \in calls

\* C18: from idle, the one draw rand of a call of transitionToNextMode decides
\* the branch by the ordered cascade: dreaming iff energy < 30 and rand <
\* idleToDream; else observing iff rand < idleToObserve; else focusing iff
\* curiosity > 40 and rand < idleToFocus + idleToObserve; else the mode stays
\* idle and the idle timer is armed.  The next mode is a function of rand and
\* of the stats and thresholds the call read, so no second draw influences it.
C18_OneDrawDecidesByCascade ==
  [][draw'.rand >= 0 =>
       LET d == draw'
           p == d.probabilities
       IN /\ mode = "idle"
          /\ mode' = IF d.energy < 2 * 30 /\ d.rand < p.idleToDream THEN "dreaming"
                     ELSE IF d.rand < p.idleToObserve THEN "observing"
                     ELSE IF d.curiosity > 2 * 40
                             /\ d.rand < p.idleToFocus + p.idleToObserve THEN "focusing"
                     ELSE "idle"
          /\ (mode' = "idle" =>
                \E t \in timers' : t.id = timerRef' /\ t.kind = "retry" /\ t.timing = "idle")]_vars

\* a draw at or above idleToObserve and idleToFocus, below their sum, has led
\* to focusing
C18_Witness ==
  /\ mode = "focusing"
  /\ draw.rand >= 0
  /\ draw.rand >= draw.probabilities.idleToObserve
  /\ draw.rand >= draw.probabilities.idleToFocus

\* a draw has left the mode idle with the idle timer armed
C18_WitnessStaysIdle ==
  /\ mode = "idle"
  /\ draw.rand >= 0
  /\ \E t \in timers : t.id = timerRef /\ t.kind = "retry"

\* C19: focusedSigil is non-null only while the mode is playing: it is set in
\* the step from focusing to playing and cleared, with onFocusChange(null), in
\* the step from playing to idle
C19_FocusOnlyWhilePlaying ==
  [][/\ (focusedSigil' # NoSigil => mode' = "playing")
     /\ (mode = "focusing" /\ mode' = "playing" =>
           focusedSigil' # NoSigil /\ "onFocusChange" \in calls')
     /\ (mode = "playing" /\ mode' = "idle" =>
           focusedSigil' = NoSigil /\ "onFocusChange" \in calls')
     /\ (focusedSigil' # focusedSigil =>
           \/ mode = "focusing" /\ mode' = "playing"
           \/ mode = "playing" /\ mode' = "idle")]_vars

\* playing has just ended: the focus is cleared and onFocusChange was called
C19_Witness ==
  /\ mode = "idle"
  /\ focusedSigil = NoSigil
  /\ "onFocusChange" \in calls


-----------------------------------------------------------------------------
(* The vitals handlers of the main component.  Vitals are in halves.  The   *)
(* handlers' visual and audio effects, and the reactions (annoyance level), *)
(* are left out; handleDrag, handleGrab and handleRelease change no vital   *)
(* the way the component calls them.                                        *)

\* handlers run in one behaviour of the vitals specification
MaxOps == 2

\* a setter that forgets the cap
AddCapped_NoMin(v, d) == v + d
\* Math.min(100, v + d), d in halves
AddCapped(v, d) == Min(2 * 100, v + d)

\* Math.max(0, Math.min(100, v))
Clamp(v) == Max(0, Min(2 * 100, v))

\* addToBondHistory: the entry carries the bond of the render that made the callback
addToBondHistory(event) ==
  Append(SliceLast(bondHistory, 29), [bond |-> bond, event |-> event])

\* the bond branch of handleInteractionStatChange
InteractionBondHistory(change, newBond) ==
  IF change > 0
  THEN Append(SliceLast(bondHistory, 50), [bond |-> newBond, event |-> "Interaction"])
  ELSE bondHistory

Step == ops < MaxOps /\ ops' = ops + 1

outsideMain == <<aiVars, webVars, pureVars>>

\* handlePoke, its stat change applied by handleInteractionStatChange; quick:
\* less than 500 ms after the previous poke
handlePoke ==
  \E quick \in BOOLEAN :
    LET count == IF quick THEN pokeCount + 1 ELSE 1
    IN /\ Step
       /\ IF count >= 3
          THEN /\ energy' = Clamp(energy + Min(2 * 100, energy + 2 * 5))
               /\ pokeCount' = 0
               /\ UNCHANGED curiosity
          ELSE /\ curiosity' = Clamp(curiosity + Min(2 * 100, curiosity + 2 * 2))
               /\ pokeCount' = count
               /\ UNCHANGED energy
       /\ UNCHANGED <<bond, health, bondHistory, offspring, gamesWon, totalInteractions,
                      breedingPartner, whisper, prngDraws, activatedPoints,
                      patternChallenge, triviaQuestion, currentGame, tapCount,
                      outsideMain>>
       /\ Render

\* handlePet
handlePet ==
  LET change  == Min(2 * 100, bond + 2 * 3)
      newBond == Clamp(bond + change)
  IN /\ Step
     /\ bond' = newBond
     /\ bondHistory' = InteractionBondHistory(change, newBond)
     /\ UNCHANGED <<energy, curiosity, health, offspring, gamesWon, totalInteractions,
                    breedingPartner, whisper, prngDraws, activatedPoints,
                    patternChallenge, triviaQuestion, currentGame, pokeCount, tapCount,
                    outsideMain>>
     /\ Render

\* handleShake(intensity): the component calls it with Math.min(1, speed / 6)
\* for a speed above 4, so that f = Math.floor(intensity * 3) is 2 or 3
handleShake ==
  \E f \in {2, 3} :
    /\ Step
    /\ energy' = Clamp(energy + Max(0, energy - 2 * f))
    /\ UNCHANGED <<curiosity, bond, health, bondHistory, offspring, gamesWon,
                   totalInteractions, breedingPartner, whisper, prngDraws,
                   activatedPoints, patternChallenge, triviaQuestion, currentGame,
                   pokeCount, tapCount, outsideMain>>
    /\ Render

\* handleOrbClick; quick: less than 350 ms after the previous tap.  The third
\* quick tap calls interaction.handleTickle and then the two setters.
handleOrbClick ==
  \E quick \in BOOLEAN :
    /\ Step
    /\ IF quick
       THEN IF tapCount + 1 >= 3
            THEN /\ energy' = AddCapped(Clamp(energy + Min(2 * 100, energy + 2 * 5)), 2 * 1)
                 /\ curiosity' = AddCapped(curiosity, 2 * 2)
                 /\ tapCount' = 0
            ELSE /\ tapCount' = tapCount + 1
                 /\ UNCHANGED <<energy, curiosity>>
       ELSE /\ tapCount' = 1
            /\ curiosity' = AddCapped(curiosity, 2 * 1)
            /\ UNCHANGED energy
    /\ UNCHANGED <<bond, health, bondHistory, offspring, gamesWon, totalInteractions,
                   breedingPartner, whisper, prngDraws, activatedPoints,
                   patternChallenge, triviaQuestion, currentGame, pokeCount,
                   outsideMain>>
    /\ Render

\* the sigil points a click can name (7 in the component)
SigilIndices == 0 .. 2

handleSigilClick ==
  \E index \in SigilIndices :
    /\ Step
    /\ totalInteractions' = totalInteractions + 1
    /\ IF patternChallenge.active
       THEN /\ UNCHANGED activatedPoints
            /\ LET newUserSequence == Append(patternChallenge.userSequence, index)
               IN IF Len(newUserSequence) = Len(patternChallenge.sequence)
                  THEN /\ IF newUserSequence = patternChallenge.sequence
                          THEN /\ bond' = AddCapped(bond, 2 * 10)
                               /\ curiosity' = AddCapped(curiosity, 2 * 5)
                               /\ gamesWon' = gamesWon + 1
                               /\ bondHistory' = addToBondHistory("Won pattern game!")
                               /\ whisper' = "Perfect resonance! The pattern is revealed."
                          ELSE /\ whisper' = "The pattern eludes you... Try again."
                               /\ UNCHANGED <<bond, curiosity, gamesWon, bondHistory>>
                       /\ patternChallenge' = NoPattern
                       /\ currentGame' = NoGame
                  ELSE /\ patternChallenge' =
                            [patternChallenge EXCEPT !.userSequence = newUserSequence]
                       /\ UNCHANGED <<bond, curiosity, gamesWon, bondHistory, whisper,
                                      currentGame>>
       ELSE /\ IF index \notin activatedPoints
               THEN /\ bond' = AddCapped(bond, 2 * 5)
                    /\ activatedPoints' = activatedPoints \cup {index}
                    /\ bondHistory' = addToBondHistory("Activated sigil point")
                    /\ whisper' = "A new connection forms."
               ELSE /\ bondHistory' = addToBondHistory("Resonated with sigil point")
                    /\ UNCHANGED <<bond, activatedPoints, whisper>>
            /\ UNCHANGED <<curiosity, gamesWon, patternChallenge, currentGame>>
    /\ UNCHANGED <<energy, health, offspring, breedingPartner, prngDraws, triviaQuestion,
                   pokeCount, tapCount, outsideMain>>
    /\ Render

handleAvatarPointerDown ==
  /\ Step
  /\ bond' = AddCapped(bond, 3)
  /\ curiosity' = AddCapped(curiosity, 2 * 1)
  /\ energy' = AddCapped(energy, 1)
  /\ totalInteractions' = totalInteractions + 1
  /\ UNCHANGED <<health, bondHistory, offspring, gamesWon, breedingPartner, whisper,
                 prngDraws, activatedPoints, patternChallenge, triviaQuestion,
                 currentGame, pokeCount, tapCount, outsideMain>>
  /\ Render


\* the mini-game buttons are disabled while a game is open
PatternSequences == {<<0, 1, 0>>, <<2, 2, 1, 0>>}
startPatternGame ==
  \E sequence \in PatternSequences :
    /\ Step
    /\ currentGame = NoGame
    /\ prngDraws' = prngDraws + 1 + Len(sequence)
    /\ patternChallenge' = [sequence |-> sequence, userSequence |-> <<>>, active |-> TRUE]
    /\ currentGame' = "sigilPattern"
    /\ whisper' = "Memorize this pattern"
    /\ UNCHANGED <<statVars, bondHistory, offspring, gamesWon, totalInteractions,
                   breedingPartner, activatedPoints, triviaQuestion, pokeCount, tapCount,
                   outsideMain>>

\* generateFibonacciTrivia: fib(7) and lucas(8) of the five questions; the
\* sort of the four options calls its comparator a number of times that
\* depends on the engine
TriviaAnswers == {13, 47}
SortDraws == {3, 5}
startTriviaGame ==
  \E answer \in TriviaAnswers, n \in SortDraws :
    /\ Step
    /\ currentGame = NoGame
    /\ prngDraws' = prngDraws + 2 + n
    /\ triviaQuestion' = answer
    /\ currentGame' = "fibonacciTrivia"
    /\ whisper' = "question"
    /\ UNCHANGED <<statVars, bondHistory, offspring, gamesWon, totalInteractions,
                   breedingPartner, activatedPoints, patternChallenge, pokeCount,
                   tapCount, outsideMain>>

\* the options offered include the answer and its double
answerTrivia ==
  \E answer \in {triviaQuestion, 2 * triviaQuestion} :
    /\ Step
    /\ triviaQuestion # NoQuestion
    /\ IF answer = triviaQuestion
       THEN /\ bond' = AddCapped(bond, 2 * 8)
            /\ curiosity' = AddCapped(curiosity, 2 * 12)
            /\ gamesWon' = gamesWon + 1
            /\ bondHistory' = addToBondHistory("Answered trivia correctly")
            /\ whisper' = "Wisdom flows through the numbers!"
       ELSE /\ whisper' = "Not quite."
            /\ UNCHANGED <<bond, curiosity, gamesWon, bondHistory>>
    /\ triviaQuestion' = NoQuestion
    /\ currentGame' = NoGame
    /\ UNCHANGED <<energy, health, offspring, totalInteractions, breedingPartner,
                   prngDraws, activatedPoints, patternChallenge, pokeCount, tapCount,
                   outsideMain>>
    /\ Render

startSnakeGame ==
  /\ Step
  /\ currentGame = NoGame
  /\ currentGame' = "snake"
  /\ whisper' = "Navigate the serpent through the grid!"
  /\ UNCHANGED <<statVars, bondHistory, offspring, gamesWon, totalInteractions,
                 breedingPartner, prngDraws, activatedPoints, patternChallenge,
                 triviaQuestion, pokeCount, tapCount, outsideMain>>

startTetrisGame ==
  /\ Step
  /\ currentGame = NoGame
  /\ currentGame' = "tetris"
  /\ whisper' = "Stack the sacred geometries!"
  /\ UNCHANGED <<statVars, bondHistory, offspring, gamesWon, totalInteractions,
                 breedingPartner, prngDraws, activatedPoints, patternChallenge,
                 triviaQuestion, pokeCount, tapCount, outsideMain>>

\* onWin of the Snake game, which is mounted while currentGame is snake
handleSnakeWin ==
  /\ Step
  /\ currentGame = "snake"
  /\ bond' = AddCapped(bond, 2 * 15)
  /\ energy' = AddCapped(energy, 2 * 10)
  /\ gamesWon' = gamesWon + 1
  /\ bondHistory' = addToBondHistory("Won Snake game")
  /\ UNCHANGED <<curiosity, health, offspring, totalInteractions, breedingPartner, whisper,
                 prngDraws, activatedPoints, patternChallenge, triviaQuestion,
                 currentGame, pokeCount, tapCount, outsideMain>>
  /\ Render

\* onWin of the Tetris game
handleTetrisWin ==
  /\ Step
  /\ currentGame = "tetris"
  /\ bond' = AddCapped(bond, 2 * 20)
  /\ curiosity' = AddCapped(curiosity, 2 * 15)
  /\ gamesWon' = gamesWon + 1
  /\ bondHistory' = addToBondHistory("Won Tetris game")
  /\ UNCHANGED <<energy, health, offspring, totalInteractions, breedingPartner, whisper,
                 prngDraws, activatedPoints, patternChallenge, triviaQuestion,
                 currentGame, pokeCount, tapCount, outsideMain>>
  /\ Render

\* the partner name input
PartnerNames == {"", "LUNA"}
setBreedingPartner ==
  \E name \in PartnerNames \ {breedingPartner} :
    /\ Step
    /\ breedingPartner' = name
    /\ UNCHANGED <<statVars, bondHistory, offspring, gamesWon, totalInteractions, whisper,
                   prngDraws, activatedPoints, patternChallenge, triviaQuestion,
                   currentGame, pokeCount, tapCount, outsideMain>>

\* a guard that joins its two conditions with && instead of ||
BreedRefused_And(partner, b) == partner = "" /\ b < 2 * 70
\* !breedingPartner || bond < 70
BreedRefused(partner, b) == partner = "" \/ b < 2 * 70

\* the draws of field.prng the component's breeding is explored with
ComponentDraws == {0, 10}

\* breedGuardian: four draws inside breedGenomes, one for the child's name
\* (the name itself is not kept)
breedGuardian ==
  /\ Step
  /\ IF BreedRefused(breedingPartner, bond)
     THEN /\ whisper' = "Bond must be at least 70 to breed, and you need a partner name."
          /\ UNCHANGED <<bond, curiosity, gamesWon, bondHistory, offspring, prngDraws>>
     ELSE \E draws \in [1 .. 4 -> ComponentDraws] :
            LET parentGenome == genome
                childGenome  == breedGenomes(parentGenome, partnerGenome, draws)
            IN /\ offspring' = Append(offspring,
                                 [genome |-> childGenome,
                                  parents |-> <<seedName, breedingPartner>>])
               /\ prngDraws' = prngDraws + 5
               /\ bond' = AddCapped(bond, 2 * 25)
               /\ curiosity' = AddCapped(curiosity, 2 * 20)
               /\ gamesWon' = gamesWon + 1
               /\ bondHistory' = addToBondHistory("Bred new Guardian")
               /\ whisper' = "is born!"
  /\ UNCHANGED <<energy, health, totalInteractions, breedingPartner, activatedPoints,
                 patternChallenge, triviaQuestion, currentGame, pokeCount, tapCount,
                 outsideMain>>
  /\ Render

-----------------------------------------------------------------------------
(* The web page (AuraliaHome): vitals in whole units *)

\* the ACTIONS table
ActionTable ==
  [feed    |-> [vitalChanges |-> [mood |-> 10, energy |-> 5, hunger |-> -30, hygiene |-> -5],
                emotion |-> "affectionate"],
   play    |-> [vitalChanges |-> [mood |-> 20, energy |-> -15, hunger |-> 10, hygiene |-> -10],
                emotion |-> "playful"],
   rest    |-> [vitalChanges |-> [mood |-> 5, energy |-> 30, hunger |-> 5, hygiene |-> 10],
                emotion |-> "serene"],
   pet     |-> [vitalChanges |-> [mood |-> 15, energy |-> 0, hunger |-> 0, hygiene |-> 5],
                emotion |-> "affectionate"],
   explore |-> [vitalChanges |-> [mood |-> 8, energy |-> -10, hunger |-> 5, hygiene |-> 0],
                emotion |-> "curious"]]

\* a clamp that forgets the lower bound
clamp_NoFloor(v) == Min(100, v)
\* const clamp = (v) => Math.max(0, Math.min(100, v))
clamp(v) == Max(0, Min(100, v))

handleAction ==
  \E actionType \in DOMAIN ActionTable :
    LET action == ActionTable[actionType]
    IN /\ Step
       /\ vitals' = [k \in DOMAIN vitals |-> clamp(vitals[k] + action.vitalChanges[k])]
       /\ emotional' = action.emotion
       /\ UNCHANGED <<aiVars, statVars, pureVars, bondHistory, offspring, gamesWon,
                      totalInteractions, breedingPartner, whisper, prngDraws,
                      activatedPoints, patternChallenge, triviaQuestion, currentGame,
                      pokeCount, tapCount>>

-----------------------------------------------------------------------------
(* The vitals specification: the handlers above, started from vitals        *)
(* anywhere in their range and from any state of the mini-games             *)

StartLevels == {0, 2 * 70 - 1, 2 * 100 - 1}
GameStarts ==
  { [currentGame |-> NoGame, patternChallenge |-> NoPattern, triviaQuestion |-> NoQuestion],
    [currentGame |-> "snake", patternChallenge |-> NoPattern, triviaQuestion |-> NoQuestion],
    [currentGame |-> "tetris", patternChallenge |-> NoPattern, triviaQuestion |-> NoQuestion],
    [currentGame |-> "sigilPattern",
     patternChallenge |-> [sequence |-> <<0, 1, 0>>, userSequence |-> <<0, 1>>,
                           active |-> TRUE],
     triviaQuestion |-> NoQuestion],
    [currentGame |-> "fibonacciTrivia", patternChallenge |-> NoPattern,
     triviaQuestion |-> 13] }
WebStarts ==
  { [mood |-> 70, energy |-> 75, hunger |-> 50, hygiene |-> 80],
    [mood |-> 0, energy |-> 0, hunger |-> 0, hygiene |-> 0],
    [mood |-> 100, energy |-> 100, hunger |-> 100, hygiene |-> 100] }

InitVitals ==
  /\ InitAI
  /\ \/ /\ energy \in {0, 2 * 100 - 1}
        /\ curiosity \in {0, 2 * 100 - 1}
        /\ bond \in StartLevels
        /\ health = 2 * 80
        /\ genome = computeGenome(energy, curiosity, bond, health)
        /\ \E g \in GameStarts :
             /\ currentGame = g.currentGame
             /\ patternChallenge = g.patternChallenge
             /\ triviaQuestion = g.triviaQuestion
        /\ breedingPartner \in PartnerNames
        /\ bondHistory = <<>> /\ offspring = <<>> /\ gamesWon = 0
        /\ totalInteractions = 0 /\ whisper = "The Guardian awakens..."
        /\ prngDraws = 0 /\ activatedPoints = {} /\ pokeCount = 0 /\ tapCount = 0
        /\ ops = 0
        /\ InitWeb
        /\ InitPure
     \/ /\ InitStats
        /\ InitGame
        /\ vitals \in WebStarts
        /\ emotional = "calm"
        /\ InitPure

NextVitals ==
  \/ handlePoke
  \/ handlePet
  \/ handleShake
  \/ handleOrbClick
  \/ handleSigilClick
  \/ handleAvatarPointerDown
  \/ startPatternGame
  \/ startTriviaGame
  \/ answerTrivia
  \/ startSnakeGame
  \/ startTetrisGame
  \/ handleSnakeWin
  \/ handleTetrisWin
  \/ setBreedingPartner
  \/ breedGuardian
  \/ handleAction

SpecVitals == InitVitals /\ [][NextVitals]_vars

\* C5: started from vitals in [0,100], every vital of the main component and
\* of the web page is within [0,100] after any sequence of the handlers
C5_VitalsInRange ==
  /\ \A v \in {energy, curiosity, bond, health} : 0 <= v /\ v <= 2 * 100
  /\ \A k \in DOMAIN vitals : 0 <= vitals[k] /\ vitals[k] <= 100

\* a Snake win has capped bond and energy, and an avatar tap followed
C5_Witness ==
  /\ bond = 2 * 100
  /\ energy = 2 * 100
  /\ gamesWon > 0
  /\ totalInteractions > 0

\* C7: with an empty partner name or bond < 70, breedGuardian appends no
\* offspring, leaves bond, curiosity, gamesWon and bondHistory alone and
\* draws nothing from field.prng
C7_RefusedBreedingIsNoOp ==
  [][((breedingPartner = "" \/ bond < 2 * 70) /\ breedGuardian)
       => UNCHANGED <<offspring, bond, curiosity, gamesWon, bondHistory, prngDraws>>]_vars

\* breeding was refused for the missing partner name although bond is high
C7_Witness ==
  /\ whisper = "Bond must be at least 70 to breed, and you need a partner name."
  /\ breedingPartner = ""
  /\ bond >= 2 * 70
  /\ offspring = <<>>

-----------------------------------------------------------------------------
(* The vitals sliders of the main component and the genome of each render.  *)
(* The hook's effect stays pending in this specification and in the vitals  *)
(* specification: effectPending is TRUE throughout.                         *)

\* the sliders are moved in steps of SliderStep (they have the range 0 .. 100)
SliderStep == 10
SliderLevels == {v \in 0 .. 100 : v % SliderStep = 0} \cup {100}

setEnergy ==
  \E v \in SliderLevels :
    /\ energy' = 2 * v
    /\ energy' # energy
    /\ UNCHANGED <<curiosity, bond, health, aiVars, restVars>>
    /\ Render

setCuriosity ==
  \E v \in SliderLevels :
    /\ curiosity' = 2 * v
    /\ curiosity' # curiosity
    /\ UNCHANGED <<energy, bond, health, aiVars, restVars>>
    /\ Render

setBond ==
  \E v \in SliderLevels :
    /\ bond' = 2 * v
    /\ bond' # bond
    /\ UNCHANGED <<energy, curiosity, health, aiVars, restVars>>
    /\ Render

setHealth ==
  \E v \in SliderLevels :
    /\ health' = 2 * v
    /\ health' # health
    /\ UNCHANGED <<energy, curiosity, bond, aiVars, restVars>>
    /\ Render

InitGenome ==
  /\ InitAI
  /\ InitRest
  /\ energy \in {2 * v : v \in SliderLevels}
  /\ curiosity \in {2 * v : v \in SliderLevels}
  /\ bond \in {2 * v : v \in SliderLevels}
  /\ health \in {2 * v : v \in SliderLevels}
  /\ genome = computeGenome(energy, curiosity, bond, health)

NextGenome == setEnergy \/ setCuriosity \/ setBond \/ setHealth

SpecGenome == InitGenome /\ [][NextGenome]_vars

\* C9: for energy, curiosity, bond and health in [0,100], computeGenome
\* yields red60, blue60 and black60 within [0,100]
C9_GenomeInRange ==
  \A axis \in DOMAIN genome : 0 <= genome[axis] /\ genome[axis] <= 20 * 100

\* all sliders at an end of their range: every weighted sum has passed 100
\* and wrapped (red 182.8, blue 196.9, black 218.4)
C9_Witness ==
  /\ energy = 2 * 100 /\ curiosity = 2 * 100 /\ bond = 2 * 100 /\ health = 0
  /\ genome = [red60 |-> 1656, blue60 |-> 1938, black60 |-> 368]


-----------------------------------------------------------------------------
(* The consciousness memory: recordExperience (auralia/consciousness.ts)    *)
(* and updateConsciousness (lib variant).  Impacts are in tenths.           *)

\* experiences recorded in one behaviour, per variant
MaxRecords == 102

\* a truncation that keeps the oldest entries: slice(0, 100)
Truncate_KeepOldest(history) == SubSeq(history, 1, Min(Len(history), 100))
\* [...actionHistory, newMemory].slice(-100), applied to the extended history
Truncate(history) == SliceLast(history, 100)

\* emotionalPatterns.set(emotion, (emotionalPatterns.get(emotion) || 0) + 1)
CountEmotion(emotionalPatterns, emotion) ==
  [emotionalPatterns EXCEPT ![emotion] = @ + 1]

\* a drift computed from any history
EnoughData_Always(history) == TRUE
\* if (history.length < 20) return {}
EnoughData(history) == ~(Len(history) < 20)

\* a trait that is not capped
Capped_Not(value, cap) == value
\* Math.min(value, cap)
Capped(value, cap) == Min(value, cap)

calculatePersonalityDrift(history, baseTraits) ==
  IF ~EnoughData(history) THEN NoDrift
  ELSE
    LET recentHistory == SliceLast(history, 50)
        Count(a) == Cardinality({i \in DOMAIN recentHistory : recentHistory[i].action = a})
        playCount     == Count("play") + Count("minigame_victory")
        feedCount     == Count("feed")
        socialCount   == Count("play") + Count("breeding")
        exploreCount  == Count("exploration_discovery") + Count("exploration_anomaly")
        positiveCount == Cardinality({i \in DOMAIN recentHistory : recentHistory[i].impact > 3})
        negativeCount == Cardinality({i \in DOMAIN recentHistory : recentHistory[i].impact < -3})
        keys == {k \in {"playfulness", "discipline", "social", "curiosity", "energy"} :
                   \/ k = "playfulness" /\ playCount > 5
                   \/ k = "discipline" /\ feedCount > 5
                   \/ k = "social" /\ socialCount > 8
                   \/ k = "curiosity" /\ exploreCount > 3
                   \/ k = "energy" /\ (positiveCount > negativeCount + 5
                                        \/ negativeCount > positiveCount + 5)}
    IN [k \in keys |->
          CASE k = "playfulness" ->
                 Capped(baseTraits.playfulness + (playCount \div 3), baseTraits.playfulness + 10)
            [] k = "discipline" ->
                 Capped(baseTraits.discipline + (feedCount \div 4), baseTraits.discipline + 8)
            [] k = "social" ->
                 Capped(baseTraits.social + (socialCount \div 4), baseTraits.social + 10)
            [] k = "curiosity" ->
                 Capped(baseTraits.curiosity + (exploreCount \div 2), baseTraits.curiosity + 12)
            [] OTHER ->
                 IF positiveCount > negativeCount + 5
                 THEN Min(baseTraits.energy + 5, baseTraits.energy + 10)
                 ELSE Max(baseTraits.energy - 5, baseTraits.energy - 10)]

\* recordExperience(consciousness, action, emotion, impact) at time now
recordExperience(mem, action, emotion, impact, now) ==
  LET newMemory == [action |-> action, emotion |-> emotion, timestamp |-> now,
                    impact |-> impact]
      actionHistory == Truncate(Append(mem.actionHistory, newMemory))
  IN [actionHistory    |-> actionHistory,
      emotionalPatterns |-> CountEmotion(mem.emotionalPatterns, emotion),
      personalityDrift |-> calculatePersonalityDrift(actionHistory, identityTraits)]

\* the memory part of updateConsciousness(state, action, emotion, impact, vitalChanges)
updateConsciousness(mem, action, emotion, impact, now) ==
  LET entry == [action |-> action, emotion |-> emotion, timestamp |-> now,
                impact |-> impact]
  IN [mem EXCEPT !.actionHistory = Truncate(Append(mem.actionHistory, entry)),
                 !.emotionalPatterns = CountEmotion(mem.emotionalPatterns, emotion)]

\* what the caller records: one action over and over, or a round of three.
\* Date.now() is taken as the number of the call.
Scripts == {"play", "round"}
\* the same, and feeding or unhappy exploring over and over
DriftScripts == Scripts \cup {"feed", "explore"}
Experience(s, n) ==
  IF s = "play"
  THEN [action |-> "play", emotion |-> "playful", impact |-> 5,
        vitalChanges |-> [energy |-> 60]]
  ELSE IF s = "feed"
  THEN [action |-> "feed", emotion |-> "affectionate", impact |-> 4,
        vitalChanges |-> [hunger |-> 20, mood |-> 80]]
  ELSE IF s = "explore"
  THEN [action |-> "exploration_anomaly", emotion |-> "calm", impact |-> -5,
        vitalChanges |-> <<>>]
  ELSE CASE n % 3 = 0 -> [action |-> "feed", emotion |-> "affectionate", impact |-> 4,
                          vitalChanges |-> [hunger |-> 20, mood |-> 80]]
         [] n % 3 = 1 -> [action |-> "exploration_discovery", emotion |-> "calm",
                          impact |-> -5, vitalChanges |-> <<>>]
         [] OTHER     -> [action |-> "play", emotion |-> "playful", impact |-> 8,
                          vitalChanges |-> [energy |-> 60]]

outsideMem == <<aiVars, statVars, gameVars, breedVars, fibVars, extVars>>

RecordExperience ==
  /\ Len(log) < MaxRecords
  /\ LET n == Len(log) + 1
         x == Experience(script, n)
     IN /\ memory' = recordExperience(memory, x.action, x.emotion, x.impact, n)
        /\ log' = Append(log, [action |-> x.action, emotion |-> x.emotion,
                               timestamp |-> n, impact |-> x.impact])
  /\ UNCHANGED <<libMemory, libLog, script, webVars, outsideMem>>

UpdateConsciousness ==
  /\ Len(libLog) < MaxRecords
  /\ LET n == Len(libLog) + 1
         x == Experience(script, n)
     IN /\ libMemory' = updateConsciousness(libMemory, x.action, x.emotion, x.impact, n)
        /\ emotional' = x.emotion
        /\ vitals' = [k \in DOMAIN vitals |->
                        IF k \in DOMAIN x.vitalChanges THEN x.vitalChanges[k]
                        ELSE vitals[k]]
        /\ libLog' = Append(libLog, [action |-> x.action, emotion |-> x.emotion,
                                     timestamp |-> n, impact |-> x.impact])
  /\ UNCHANGED <<memory, log, script, outsideMem>>

InitMemory ==
  /\ InitAI
  /\ InitStats
  /\ InitGame
  /\ InitWeb
  /\ InitMem
  /\ script \in Scripts
  /\ InitBreed
  /\ InitFib
  /\ InitExt

NextMemory == RecordExperience \/ UpdateConsciousness

SpecMemory == InitMemory /\ [][NextMemory]_vars

\* the last min(n, 100) entries of what was recorded, in recording order
MostRecent(recorded, history) ==
  LET n == Len(recorded)
      k == IF n < 100 THEN n ELSE 100
  IN /\ Len(history) = k
     /\ \A i \in 1 .. k : history[i] = recorded[n - k + i]

\* C6: from an empty history, after any number of recordExperience calls
\* (auralia) or updateConsciousness calls (lib), actionHistory has at most 100
\* entries and is the most recent min(n,100) recorded entries in order
C6_HistoryIsMostRecent100 ==
  /\ Len(memory.actionHistory) <= 100
  /\ Len(libMemory.actionHistory) <= 100
  /\ MostRecent(log, memory.actionHistory)
  /\ MostRecent(libLog, libMemory.actionHistory)

\* both variants have recorded more than 100 entries and have dropped the first
C6_Witness ==
  /\ Len(log) > 100
  /\ Len(libLog) > 100
  /\ Len(memory.actionHistory) = 100
  /\ memory.actionHistory[1].timestamp = Len(log) - 99
  /\ libMemory.actionHistory[100].timestamp = Len(libLog)


-----------------------------------------------------------------------------
(* breedGenomes on its own: the parents are drawn from the range of an      *)
(* axis: its ends and a half-integer inside                                 *)

ParentAxis == {0, 20 * 49 + 10, 20 * 100}
ParentGenomes == [red60 : ParentAxis, blue60 : ParentAxis, black60 : ParentAxis]

outsideBreed == <<aiVars, statVars, gameVars, webVars, memVars, fibVars, extVars>>

ApplyBreedGenomes ==
  \E draws \in RandomDraws :
    /\ breedChild' = breedGenomes(breedParent1, breedParent2, draws)
    /\ breedDraws' = draws
    /\ UNCHANGED <<breedParent1, breedParent2, outsideBreed>>

InitBreeding ==
  /\ InitAI
  /\ InitStats
  /\ InitGame
  /\ InitWeb
  /\ InitMem
  /\ script = "play"
  /\ InitFib
  /\ InitExt
  /\ breedParent1 \in ParentGenomes
  /\ breedParent2 \in ParentGenomes
  /\ breedDraws = <<>>
  /\ breedChild = NoGenome

NextBreeding == ApplyBreedGenomes

SpecBreed == InitBreeding /\ [][NextBreeding]_vars

\* C8: for parents with axes in [0,100] and any four draws in [0,1), each
\* axis of the genome breedGenomes returns is an integer within [0,100]
C8_ChildAxesAreIntegersInRange ==
  breedChild # NoGenome =>
    \A axis \in DOMAIN breedChild :
      /\ breedChild[axis] % 20 = 0
      /\ 0 <= breedChild[axis]
      /\ breedChild[axis] <= 20 * 100

\* both parents have red at 100: the upward variance was clamped, the boost
\* fell on red and was capped; blue rose from 0 by 13.5 and was rounded to 14
C8_Witness ==
  /\ breedParent1 = [red60 |-> 20 * 100, blue60 |-> 0, black60 |-> 0]
  /\ breedParent2 = [red60 |-> 20 * 100, blue60 |-> 0, black60 |-> 0]
  /\ breedDraws = <<19, 19, 0, 0>>
  /\ breedChild = [red60 |-> 20 * 100, blue60 |-> 20 * 14, black60 |-> 0]

-----------------------------------------------------------------------------
(* The Fibonacci core of mossPrimeSeed: fibFast, field.fib, field.lucas     *)

\* the largest argument
MaxFib == 40
\* the number of negative arguments
MinFib == 3

\* the doubling step for an odd index that returns the pair of the even one
FibStep_NoShift(k, c, d) == <<c, d>>
\* if ((k & 1n) === 0n) return [c, d]; return [d, c + d]
FibStep(k, c, d) == IF k % 2 = 0 THEN <<c, d>> ELSE <<d, c + d>>

\* fn of fibFast: k >> 1n is k \div 2, b << 1n is 2 * b
RECURSIVE fn(_)
fn(k) ==
  IF k = 0 THEN <<0, 1>>
  ELSE LET ab == fn(k \div 2)
           a  == ab[1]
           b  == ab[2]
           c  == a * ((2 * b) - a)
           d  == (a * a) + (b * b)
       IN FibStep(k, c, d)

\* BigInt(Math.max(0, Math.floor(n))) for an integer n
fibFast(n) == fn(Max(0, n))

fib(n) == fibFast(n)[1]

lucas(n) ==
  IF n = 0 THEN 2
  ELSE LET N  == Max(0, n)
           FF == fibFast(N)
       IN (2 * FF[2]) - FF[1]

outsideFib == <<aiVars, statVars, gameVars, webVars, memVars, breedVars, extVars>>

ApplyFibFast ==
  /\ fibResult' = [fn |-> "fibFast", value |-> fibFast(fibN)]
  /\ UNCHANGED <<fibN, outsideFib>>

ApplyFib ==
  /\ fibResult' = [fn |-> "fib", value |-> <<fib(fibN)>>]
  /\ UNCHANGED <<fibN, outsideFib>>

ApplyLucas ==
  /\ fibResult' = [fn |-> "lucas", value |-> <<lucas(fibN)>>]
  /\ UNCHANGED <<fibN, outsideFib>>

InitFibonacci ==
  /\ InitAI
  /\ InitStats
  /\ InitGame
  /\ InitWeb
  /\ InitMem
  /\ script = "play"
  /\ InitBreed
  /\ InitExt
  /\ fibN \in (0 - MinFib) .. MaxFib
  /\ fibResult = NoResult

NextFibonacci == ApplyFibFast \/ ApplyFib \/ ApplyLucas

SpecFib == InitFibonacci /\ [][NextFibonacci]_vars

\* the Fibonacci and Lucas numbers by their recurrences: the sequences
\* <<F(0), ..., F(n)>> and <<L(0), ..., L(n)>>
RECURSIVE FibonacciSeq(_)
FibonacciSeq(n) ==
  IF n = 0 THEN <<0>>
  ELSE IF n = 1 THEN <<0, 1>>
  ELSE LET s == FibonacciSeq(n - 1) IN Append(s, s[n] + s[n - 1])
RECURSIVE LucasSeq(_)
LucasSeq(n) ==
  IF n = 0 THEN <<2>>
  ELSE IF n = 1 THEN <<2, 1>>
  ELSE LET s == LucasSeq(n - 1) IN Append(s, s[n] + s[n - 1])
F(n) == FibonacciSeq(n)[n + 1]
L(n) == LucasSeq(n)[n + 1]

\* C10: fibFast(n) is (F(n), F(n+1)), field.fib(n) is F(n) and field.lucas(n)
\* is the Lucas number L(n), an argument below 0 counting as 0
C10_FibonacciAndLucas ==
  LET n == IF fibN < 0 THEN 0 ELSE fibN
  IN /\ fibResult.fn = "fibFast" => fibResult.value = <<F(n), F(n + 1)>>
     /\ fibResult.fn = "fib" => fibResult.value = <<F(n)>>
     /\ fibResult.fn = "lucas" => fibResult.value = <<L(n)>>

\* fibFast(20) has returned (6765, 10946)
C10_Witness ==
  /\ fibN = 20
  /\ fibResult = [fn |-> "fibFast", value |-> <<6765, 10946>>]

-----------------------------------------------------------------------------
(* mossPrimeSeed: the generator of a field (prng).  The state words are     *)
(* bigints that are never masked; what prng returns is kept as the numerator *)
(* n of n / 2^64, n = Number(sum), the division by 2^64 being exact.         *)

\* calls of prng in one behaviour
MaxPrngCalls == 24

\* the state words a behaviour starts from: those initField leaves for the
\* seed names, and words, next to the s1 of AURALIA, whose next masked sum is
\* 2^64 - 1, 2^64 - 1024 and 2^64 - 1025
StateWords ==
  {<<Fields[name].s0, Fields[name].s1>> : name \in SeedNames}
  \cup {<<FromHex(x), Fields["AURALIA"].s1>> :
          x \in {<<7, 6, 3, 11, 4, 4, 0, 14, 2, 11, 0, 7, 11, 1, 10>>,
                 <<13, 12, 5, 4, 2, 14, 6, 13, 4, 0, 4, 9, 12, 6, 11, 9>>,
                 <<13, 14, 5, 3, 13, 1, 6, 10, 11, 0, 3, 6, 3, 6, 9, 9>>}}

outsideField == <<aiVars, statVars, gameVars, webVars, memVars, breedVars, fibVars,
                  storeVars, saveVars, tetrisVars, moreVars>>

\* field.prng()
prng(limit) ==
  /\ fieldCalls < limit
  /\ LET next == XorShift(s0, s1)
     IN /\ s0' = next.s0
        /\ s1' = next.s1
        /\ prngRet' = Number(BigMask(BigAdd(next.s0, next.s1), 64))
  /\ fieldCalls' = fieldCalls + 1
  /\ UNCHANGED <<seedBI, hashRet, sigilRet, outsideField>>

PrngCall == prng(MaxPrngCalls)

InitOutsideField ==
  /\ InitAI
  /\ InitStats
  /\ InitGame
  /\ InitWeb
  /\ InitMem
  /\ script = "play"
  /\ InitBreed
  /\ InitFib
  /\ InitStore
  /\ InitSave
  /\ InitTetris
  /\ InitMore

InitPrng ==
  /\ InitOutsideField
  /\ \E w \in StateWords :
       InitFieldOf([seedBI |-> Fields["AURALIA"].seedBI, s0 |-> w[1], s1 |-> w[2]])

NextPrng == PrngCall

SpecPrng == InitPrng /\ [][NextPrng]_vars

Is64Bit(word) == \A i \in 17 .. Len(word) : word[i] = 0

\* C27: after any number of prng() calls both state words s0 and s1 are
\* 64-bit values, 0 <= s0, s1 < 2^64: the left shift by 23 never leaves a
\* stored state word wider than 64 bits
C27_StateWordsAre64Bit ==
  /\ Is64Bit(s0)
  /\ Is64Bit(s1)

-----------------------------------------------------------------------------
(* mossPrimeSeed: hash and generateSigilPoints on a field in use.  For each  *)
(* message the first and the last value returned are kept, each with the    *)
(* state word s1 of the generator at the time of the call.                  *)

\* calls made on one field in one behaviour
MaxFieldCalls == 4

Returned(ret, value) ==
  [first      |-> IF ret.first = NoValue THEN value ELSE ret.first,
   firstState |-> IF ret.first = NoValue THEN s1 ELSE ret.firstState,
   last       |-> value,
   lastState  |-> s1]

PrngOnField == prng(MaxFieldCalls)

\* field.hash(msg)
HashCall ==
  \E msg \in Messages :
    /\ fieldCalls < MaxFieldCalls
    /\ hashRet' = [hashRet EXCEPT ![msg] = Returned(@, hash(seedBI, s0, CharCodes[msg]))]
    /\ fieldCalls' = fieldCalls + 1
    /\ UNCHANGED <<seedBI, s0, s1, prngRet, sigilRet, outsideField>>

\* generateSigilPoints(field, seed, 7), which calls field.hash(seed)
GenerateSigilPointsCall ==
  \E seed \in Messages :
    /\ fieldCalls < MaxFieldCalls
    /\ LET h == hash(seedBI, s0, CharCodes[seed])
       IN /\ hashRet' = [hashRet EXCEPT ![seed] = Returned(@, h)]
          /\ sigilRet' = [sigilRet EXCEPT ![seed] = Returned(@, generateSigilPoints(h, 7))]
    /\ fieldCalls' = fieldCalls + 1
    /\ UNCHANGED <<seedBI, s0, s1, prngRet, outsideField>>

InitFieldInUse ==
  /\ InitOutsideField
  /\ \E name \in SeedNames : InitFieldOf(Fields[name])

NextField == PrngOnField \/ HashCall \/ GenerateSigilPointsCall

SpecField == InitFieldInUse /\ [][NextField]_vars

\* C12: on one field, hash(msg) returns the same value whatever prng() and
\* hash() calls were made before, and generateSigilPoints(field, seed, 7)
\* returns 7 points that are the same, index by index, on every call
C12_HashIgnoresGeneratorState ==
  \A msg \in Messages :
    /\ hashRet[msg].last = hashRet[msg].first
    /\ sigilRet[msg].last = sigilRet[msg].first
    /\ sigilRet[msg].last # NoValue =>
         /\ Len(sigilRet[msg].last) = 7
         /\ \A i \in 1 .. 7 : sigilRet[msg].last[i] = sigilRet[msg].first[i]

\* a message was hashed, and sigil points were generated, before and after
\* calls of prng
C12_Witness ==
  /\ \E msg \in Messages :
       hashRet[msg].first # NoValue /\ hashRet[msg].firstState # hashRet[msg].lastState
  /\ \E seed \in Messages :
       sigilRet[seed].first # NoValue /\ sigilRet[seed].firstState # sigilRet[seed].lastState

-----------------------------------------------------------------------------
(* lib/persistence.ts and hooks/useConsciousness.ts: the consciousness of    *)
(* the web page in localStorage.  The state kept is expression.emotional,   *)
(* expression.vitals and memory; a stored item is <<string>>, the JSON       *)
(* string being the record JSON.parse makes of it, or Unparsable.           *)

CURRENT_VERSION == "1"

\* cap on the counts of memory.emotionalPatterns
MaxPatternCount == 1

\* Array.from(map.entries()): the pairs of the keys the map holds
Entries(map) == {<<e, map[e]>> : e \in {x \in Emotions : map[x] > 0}}

\* new Map(entries)
MapOf(entries) ==
  [e \in Emotions |->
     IF \E pair \in entries : pair[1] = e
     THEN (CHOOSE pair \in entries : pair[1] = e)[2]
     ELSE 0]

\* a string JSON.parse throws on
Unparsable == [parses |-> FALSE]

serializeConsciousness(state) ==
  [parses |-> TRUE,
   expression |-> [emotional |-> state.emotional, vitals |-> state.vitals],
   memory |-> [actionHistory |-> state.memory.actionHistory,
               emotionalPatterns |-> Entries(state.memory.emotionalPatterns),
               personalityDrift |-> state.memory.personalityDrift]]

\* deserializeConsciousness(json): <<state>>, or <<>> for null
deserializeConsciousness(json) ==
  IF ~json.parses THEN <<>>
  ELSE <<[emotional |-> json.expression.emotional,
          vitals |-> json.expression.vitals,
          memory |-> [actionHistory |-> json.memory.actionHistory,
                      emotionalPatterns |-> MapOf(json.memory.emotionalPatterns),
                      personalityDrift |-> json.memory.personalityDrift]]>>

\* version === CURRENT_VERSION.toString()
VersionMatches(version) == version = <<CURRENT_VERSION>>

\* loadConsciousness(): the state returned, <<>> for null, and whether the
\* stored record was deserialized
loadConsciousness(store) ==
  IF ~VersionMatches(store.auralia_version) THEN NoLoad
  ELSE IF store.auralia_consciousness = NoItem THEN NoLoad
  ELSE [state |-> deserializeConsciousness(store.auralia_consciousness[1]),
        deserialized |-> TRUE]

\* saveConsciousness(state)
saveConsciousness(state) ==
  [auralia_consciousness |-> <<serializeConsciousness(state)>>,
   auralia_version |-> <<CURRENT_VERSION>>]

\* initializeConsciousness(defaultTraits)
FreshConsciousness ==
  [emotional |-> "calm",
   vitals |-> [mood |-> 70, energy |-> 75, hunger |-> 50, hygiene |-> 80],
   memory |-> EmptyMemory]

\* getOrCreateConsciousness(defaultTraits)
getOrCreateConsciousness(store) ==
  LET saved == loadConsciousness(store).state
  IN IF saved # <<>> THEN saved[1] ELSE FreshConsciousness

\* the consciousness the hook holds
Consciousness == [emotional |-> emotional, vitals |-> vitals, memory |-> memory]

\* a record an earlier session left: the pet was playful once
EarlierRecord ==
  serializeConsciousness(
    [emotional |-> "playful",
     vitals |-> [mood |-> 90, energy |-> 60, hunger |-> 40, hygiene |-> 80],
     memory |-> [EmptyMemory EXCEPT !.emotionalPatterns["playful"] = 1]])

\* what localStorage can hold when the page is opened: nothing; a record of
\* the current version; a record of an older version; a record without a
\* version tag; a record of the current version that does not parse
StoredAtOpen ==
  {EmptyStorage,
   [auralia_consciousness |-> <<EarlierRecord>>, auralia_version |-> <<CURRENT_VERSION>>],
   [auralia_consciousness |-> <<EarlierRecord>>, auralia_version |-> <<"0">>],
   [auralia_consciousness |-> <<EarlierRecord>>, auralia_version |-> NoItem],
   [auralia_consciousness |-> <<Unparsable>>, auralia_version |-> <<CURRENT_VERSION>>]}

outsideStore == <<aiVars, statVars, gameVars, libMemory, log, libLog, script,
                  breedVars, fibVars, fieldVars, saveVars, tetrisVars, moreVars>>

\* the mount effect of useConsciousness; the auto-save effect of the render
\* it causes arms the debounce timer
MountConsciousness ==
  /\ ~isLoaded
  /\ LET initial == getOrCreateConsciousness(storage)
     IN /\ emotional' = initial.emotional
        /\ vitals' = initial.vitals
        /\ memory' = initial.memory
  /\ loadRet' = loadConsciousness(storage)
  /\ isLoaded' = TRUE
  /\ saveTimer' = TRUE
  /\ UNCHANGED <<storage, outsideStore>>

\* updateConsciousness(newState): the pet takes on an emotion; the auto-save
\* effect clears the pending debounce timer and arms a new one
UpdateAndDebounce ==
  \E e \in Emotions :
    /\ isLoaded
    /\ emotional' = e
    /\ memory' = [memory EXCEPT !.emotionalPatterns[e] = Min(MaxPatternCount, @ + 1)]
    /\ <<emotional', memory'>> # <<emotional, memory>>
    /\ saveTimer' = TRUE
    /\ UNCHANGED <<vitals, storage, isLoaded, loadRet, outsideStore>>

\* the debounce timer fires: saveConsciousness(consciousness)
SaveTimerFires ==
  /\ saveTimer
  /\ storage' = saveConsciousness(Consciousness)
  /\ saveTimer' = FALSE
  /\ UNCHANGED <<vitals, emotional, memory, isLoaded, loadRet, outsideStore>>

\* the page is closed or reloaded: the cleanup clears the debounce timer and
\* the state of the hook is gone
UnmountConsciousness ==
  /\ isLoaded
  /\ isLoaded' = FALSE
  /\ saveTimer' = FALSE
  /\ loadRet' = NoLoad
  /\ emotional' = FreshConsciousness.emotional
  /\ vitals' = FreshConsciousness.vitals
  /\ memory' = FreshConsciousness.memory
  /\ UNCHANGED <<storage, outsideStore>>

InitStorage ==
  /\ InitAI
  /\ InitStats
  /\ InitGame
  /\ InitWeb
  /\ InitMem
  /\ script = "play"
  /\ InitBreed
  /\ InitFib
  /\ InitFieldOf(Fields["AURALIA"])
  /\ InitSave
  /\ InitTetris
  /\ InitMore
  /\ storage \in StoredAtOpen
  /\ isLoaded = FALSE
  /\ saveTimer = FALSE
  /\ loadRet = NoLoad

NextStore ==
  \/ MountConsciousness
  \/ UpdateAndDebounce
  \/ SaveTimerFires
  \/ UnmountConsciousness

SpecStore == InitStorage /\ [][NextStore]_vars

\* C13: when the page is opened with a version tag that is missing or differs
\* from the current version, loadConsciousness returns no state without
\* deserializing the record, getOrCreateConsciousness returns a freshly
\* initialised state, and the stale record is no longer in storage afterwards
C13_StaleRecordIsDiscarded ==
  [][(~isLoaded /\ isLoaded' /\ storage.auralia_version # <<CURRENT_VERSION>>) =>
       /\ loadRet' = NoLoad
       /\ [emotional |-> emotional', vitals |-> vitals', memory |-> memory']
            = FreshConsciousness
       /\ storage'.auralia_consciousness = NoItem]_vars

-----------------------------------------------------------------------------
(* The bond history of the main component after many interactions.  A       *)
(* behaviour starts in the state the component is in after it was mounted   *)
(* and petted n times: the first pet raises bond from 50 to 100, every pet  *)
(* appends an entry, and handlePet changes nothing else.                     *)

\* the numbers of pets a behaviour starts after
PetsBefore == {0, 29, 30}

InitBond ==
  /\ InitAI
  /\ InitWeb
  /\ InitPure
  /\ offspring = <<>> /\ gamesWon = 0 /\ totalInteractions = 0
  /\ breedingPartner = "" /\ whisper = "The Guardian awakens..."
  /\ prngDraws = 0 /\ activatedPoints = {} /\ patternChallenge = NoPattern
  /\ triviaQuestion = NoQuestion /\ currentGame = NoGame
  /\ pokeCount = 0 /\ tapCount = 0 /\ ops = 0
  /\ \E n \in PetsBefore :
       /\ bondHistory = [i \in 1 .. n |-> [bond |-> 2 * 100, event |-> "Interaction"]]
       /\ bond = IF n = 0 THEN 2 * 50 ELSE 2 * 100
  /\ energy = 2 * 50
  /\ curiosity = 2 * 50
  /\ health = 2 * 80
  /\ genome = computeGenome(energy, curiosity, bond, health)

SpecBond == InitBond /\ [][NextVitals]_vars

-----------------------------------------------------------------------------
(* The auto-save effect of the main component.  Time advances in steps of   *)
(* 10 seconds; a due interval callback runs before time advances further    *)
(* and before a tap that falls on the same instant.                         *)

\* setInterval(..., 30000), in steps of 10 seconds
SaveInterval == 3
\* a behaviour ends after this long without a save
MaxWait == 12
\* taps on the avatar in one behaviour
MaxTaps == 8

outsideSave == <<aiVars, webVars, memVars, breedVars, fibVars, fieldVars, storeVars,
                 tetrisVars, moreVars>>

\* 10 seconds pass
Tick ==
  /\ intervalAge < SaveInterval
  /\ sinceSave < MaxWait
  /\ intervalAge' = intervalAge + 1
  /\ sinceSave' = sinceSave + 1
  /\ UNCHANGED <<statVars, gameVars, outsideSave>>

\* the interval callback: saveGuardianState(saveData)
AutoSaveFires ==
  /\ intervalAge = SaveInterval
  /\ intervalAge' = 0
  /\ sinceSave' = 0
  /\ UNCHANGED <<statVars, gameVars, outsideSave>>

\* a tap on the avatar (handleAvatarPointerDown) changes bond, curiosity,
\* energy and totalInteractions, which are dependencies of the auto-save
\* effect: its cleanup clears the interval and the effect creates a new one
TapAndRearm ==
  /\ totalInteractions < MaxTaps
  /\ intervalAge < SaveInterval
  /\ bond' = AddCapped(bond, 3)
  /\ curiosity' = AddCapped(curiosity, 2 * 1)
  /\ energy' = AddCapped(energy, 1)
  /\ totalInteractions' = totalInteractions + 1
  /\ intervalAge' = 0
  /\ UNCHANGED <<health, bondHistory, offspring, gamesWon, breedingPartner, whisper,
                 prngDraws, activatedPoints, patternChallenge, triviaQuestion,
                 currentGame, pokeCount, tapCount, ops, sinceSave, outsideSave>>
  /\ Render

NextSave == Tick \/ AutoSaveFires \/ TapAndRearm

SpecSave == Init /\ [][NextSave]_vars

\* C15: while the component stays mounted, the guardian state is written to
\* localStorage at least once in every 30-second window, also when saved
\* state variables change more often than every 30 seconds
C15_SavedEvery30Seconds == sinceSave <= SaveInterval

-----------------------------------------------------------------------------
(* TetrisGame: locking a piece.  The board is left out: a lock draws the    *)
(* number of lines it clears and whether the next piece can be placed.  A   *)
(* lock that clears two lines or more leaves the two top rows empty, and    *)
(* every piece is at most two rows high when it appears, so it fits.        *)

WIN_SCORE == 300
\* no lock is run from this score on
MaxScore == 1500
\* games won in one behaviour
MaxGames == 4

outsideTetris == <<aiVars, webVars, memVars, breedVars, fibVars, fieldVars, storeVars,
                   saveVars, moreVars>>

\* a lock that calls onWin whenever the score is at WIN_SCORE or above
WinsAtLock_Always(blocked, newScore) == newScore >= WIN_SCORE /\ ~hasWon
\* lockPiece calls onWin inside if (!canPlacePiece(nextPiece, 0, 0, newBoard))
WinsAtLock(blocked, newScore) == blocked /\ newScore >= WIN_SCORE /\ ~hasWon

\* lockPiece, with onWin = handleTetrisWin of the main component
lockPiece ==
  \E linesCleared \in 0 .. 4, blocked \in BOOLEAN :
    LET newScore == score + (linesCleared * 100)
    IN /\ ~gameOver
       /\ score < MaxScore
       /\ blocked => linesCleared <= 1
       /\ score' = newScore
       /\ gameOver' = blocked
       /\ UNCHANGED <<energy, health>>
       /\ IF WinsAtLock(blocked, newScore)
          THEN /\ hasWon' = TRUE
               /\ onWinCalls' = onWinCalls + 1
               /\ bond' = AddCapped(bond, 2 * 20)
               /\ curiosity' = AddCapped(curiosity, 2 * 15)
               /\ gamesWon' = gamesWon + 1
               /\ bondHistory' = addToBondHistory("Won Tetris game")
               /\ Render
          ELSE UNCHANGED <<hasWon, onWinCalls, bond, curiosity, gamesWon, bondHistory,
                           genome>>
       /\ UNCHANGED <<offspring, totalInteractions, breedingPartner, whisper,
                      prngDraws, activatedPoints, patternChallenge, triviaQuestion,
                      currentGame, pokeCount, tapCount, ops, outsideTetris>>

\* resetGame: a new game
resetGame ==
  /\ gamesWon < MaxGames
  /\ score' = 0
  /\ gameOver' = FALSE
  /\ hasWon' = FALSE
  /\ onWinCalls' = 0
  /\ UNCHANGED <<statVars, gameVars, outsideTetris>>

\* the Tetris game has just been opened from the mounted component
InitTetrisGame ==
  /\ InitAI
  /\ InitStats
  /\ InitWeb
  /\ InitPure
  /\ bondHistory = <<>> /\ offspring = <<>> /\ gamesWon = 0 /\ totalInteractions = 0
  /\ breedingPartner = "" /\ whisper = "Stack the sacred geometries!"
  /\ prngDraws = 0 /\ activatedPoints = {} /\ patternChallenge = NoPattern
  /\ triviaQuestion = NoQuestion /\ currentGame = "tetris"
  /\ pokeCount = 0 /\ tapCount = 0 /\ ops = 0

NextTetris == lockPiece \/ resetGame

SpecTetris == InitTetrisGame /\ [][NextTetris]_vars

\* C16: when a lock brings the score to 300 or more, onWin is invoked at that
\* moment, and exactly once for that game, whether or not the game continues
C16_OnWinWhenScoreReachesWin ==
  [][/\ (score < WIN_SCORE /\ score' >= WIN_SCORE) => onWinCalls' = onWinCalls + 1
     /\ onWinCalls' <= 1]_vars

-----------------------------------------------------------------------------
(* useGuardianInteraction: the poke combo of handlePoke, with the clock.    *)
(* Every poke is kept in pokeLog with its time and the reaction it emitted.  *)

\* pokes in one behaviour
MaxPokes == 7
\* the time between two pokes, in ms: around the window of 500 ms
PokeGaps == {100, 499, 500}

\* all the state but the stats and the poke refs
outsidePoke == <<aiVars, bond, health, bondHistory, offspring, gamesWon, totalInteractions,
                 breedingPartner, whisper, prngDraws, activatedPoints, patternChallenge,
                 triviaQuestion, currentGame, tapCount, webVars, memVars, breedVars,
                 fibVars, fieldVars, storeVars, saveVars, tetrisVars, identityTraits,
                 fnVars, arcadeVars>>

\* a tickle that leaves the count where it is
CountAfterTickle_Keep(count) == count
\* pokeCountRef.current = 0
CountAfterTickle(count) == 0

\* handlePoke called when the clock shows clock + gap, its stat change applied
\* by handleInteractionStatChange
handlePokeAt ==
  \E gap \in PokeGaps :
    LET now   == clock + gap
        count == IF now - lastPokeTime < 500 THEN pokeCount + 1 ELSE 1
    IN /\ ops < MaxPokes
       /\ ops' = ops + 1
       /\ clock' = now
       /\ lastPokeTime' = now
       /\ UNCHANGED <<bond, health>>
       /\ IF count >= 3
          THEN /\ pokeLog' = Append(pokeLog, [at |-> now, reaction |-> "tickle"])
               /\ energy' = Clamp(energy + Min(2 * 100, energy + 2 * 5))
               /\ pokeCount' = CountAfterTickle(count)
               /\ UNCHANGED curiosity
          ELSE /\ pokeLog' = Append(pokeLog, [at |-> now, reaction |-> "poke"])
               /\ curiosity' = Clamp(curiosity + Min(2 * 100, curiosity + 2 * 2))
               /\ pokeCount' = count
               /\ UNCHANGED energy
       /\ Render
       /\ UNCHANGED outsidePoke

NextPoke == handlePokeAt

SpecPoke == Init /\ [][NextPoke]_vars

\* the place of poke n in its run: a poke that is the first, that follows the
\* previous one by 500 ms or more, or that follows a tickle starts a run
RECURSIVE PlaceInRun(_, _)
PlaceInRun(pokes, n) ==
  IF n = 1 THEN 1
  ELSE IF pokes[n].at - pokes[n - 1].at >= 500 THEN 1
  ELSE IF pokes[n - 1].reaction = "tickle" THEN 1
  ELSE PlaceInRun(pokes, n - 1) + 1

-----------------------------------------------------------------------------
(* The personality drift of recordExperience, for several base traits and   *)
(* several kinds of history.                                                 *)

\* identity.traits a behaviour starts with
TraitStarts ==
  {DEFAULT_TRAITS,
   [k \in DOMAIN DEFAULT_TRAITS |-> 0],
   [k \in DOMAIN DEFAULT_TRAITS |-> 95]}

InitDrift ==
  /\ InitBase
  /\ InitPoke
  /\ InitFn
  /\ InitArcade
  /\ script \in DriftScripts
  /\ identityTraits \in TraitStarts

NextDrift == RecordExperience

SpecDrift == InitDrift /\ [][NextDrift]_vars

\* C22: whenever the action history has fewer than 20 entries after a
\* recordExperience call, the resulting personalityDrift is empty
C22_NoDriftBelow20Entries ==
  (memory.actionHistory # <<>> /\ Len(memory.actionHistory) < 20)
    => DOMAIN memory.personalityDrift = {}

\* 19 plays were recorded, far more than the 5 that raise playfulness
C22_Witness ==
  /\ Len(memory.actionHistory) = 19
  /\ \A i \in 1 .. 19 : memory.actionHistory[i].action = "play"
  /\ DOMAIN memory.personalityDrift = {}

\* C23: every trait present in personalityDrift is within its cap of the base
\* trait: playfulness and social at most base + 10, discipline at most base +
\* 8, curiosity at most base + 12, energy within base - 10 .. base + 10, none
\* of the four count-driven traits below its base; and recordExperience
\* leaves identity.traits unchanged
C23_DriftWithinCaps ==
  [][/\ identityTraits' = identityTraits
     /\ LET drift == memory'.personalityDrift
            base  == identityTraits
            top   == [playfulness |-> 10, social |-> 10, discipline |-> 8,
                      curiosity |-> 12, energy |-> 10]
        IN \A k \in DOMAIN drift :
             /\ drift[k] <= base[k] + top[k]
             /\ IF k = "energy" THEN drift[k] >= base[k] - 10 ELSE drift[k] >= base[k]]_vars

\* playfulness and social have reached their caps of 10 above the base
C23_Witness ==
  /\ "playfulness" \in DOMAIN memory.personalityDrift
  /\ memory.personalityDrift["playfulness"] = identityTraits.playfulness + 10
  /\ memory.personalityDrift["social"] = identityTraits.social + 10

-----------------------------------------------------------------------------
(* consciousness: calculateEmotionalResponse(vitals, traits), applied to    *)
(* vitals and traits around every threshold it compares with.               *)

\* a response that looks at hygiene before hunger
Distress_HygieneFirst(v) ==
  IF v.hygiene < 30 THEN "overwhelmed"
  ELSE IF v.hunger > 80 THEN "yearning"
  ELSE IF v.energy < 20 THEN "withdrawn"
  ELSE "none"
\* the distress states: the first three rules
Distress(v) ==
  IF v.hunger > 80 THEN "yearning"
  ELSE IF v.hygiene < 30 THEN "overwhelmed"
  ELSE IF v.energy < 20 THEN "withdrawn"
  ELSE "none"

calculateEmotionalResponse(v, traits) ==
  IF Distress(v) # "none" THEN Distress(v)
  ELSE IF v.mood > 85 /\ v.energy > 70 THEN "ecstatic"
  ELSE IF v.mood > 75 /\ traits.energy > 60 THEN "playful"
  ELSE IF v.mood > 75 /\ traits.curiosity > 60 THEN "curious"
  ELSE IF v.mood > 60 /\ traits.affection > 60 THEN "affectionate"
  ELSE IF v.mood > 50 /\ v.mood < 70 THEN "calm"
  ELSE IF v.mood > 50 /\ traits.curiosity > 70 THEN "contemplative"
  ELSE IF v.mood < 40 THEN "melancholic"
  ELSE IF v.energy > 60 /\ v.mood < 50 THEN "restless"
  ELSE "serene"

\* the vitals and traits the response is computed for
MoodLevels == {30, 40, 45, 50, 51, 65, 70, 76, 86, 90}
EnergyLevels == {10, 20, 60, 61, 70, 71, 80}
HungerLevels == {20, 80, 81}
HygieneLevels == {29, 30, 90}
TraitLevels ==
  {DEFAULT_TRAITS,
   [DEFAULT_TRAITS EXCEPT !.energy = 60, !.affection = 60, !.curiosity = 60],
   [DEFAULT_TRAITS EXCEPT !.energy = 60, !.affection = 60, !.curiosity = 71]}

outsideFn == <<aiVars, statVars, gameVars, webVars, memVars, breedVars, fibVars,
               fieldVars, storeVars, saveVars, tetrisVars, pokeVars, identityTraits,
               arcadeVars>>

ApplyEmotionalResponse ==
  /\ result' = [fn |-> "calculateEmotionalResponse",
                value |-> calculateEmotionalResponse(vitals, identityTraits)]
  /\ UNCHANGED <<evoGenome, outsideFn>>

InitEmotion ==
  /\ InitAI
  /\ InitStats
  /\ InitGame
  /\ emotional = "calm"
  /\ InitMem
  /\ script = "play"
  /\ InitBreed
  /\ InitFib
  /\ InitFieldOf(Fields["AURALIA"])
  /\ InitStore
  /\ InitSave
  /\ InitTetris
  /\ InitPoke
  /\ InitFn
  /\ InitArcade
  /\ identityTraits \in TraitLevels
  /\ vitals \in [mood : MoodLevels, energy : EnergyLevels, hunger : HungerLevels,
                  hygiene : HygieneLevels]

NextEmotion == ApplyEmotionalResponse

SpecEmotion == InitEmotion /\ [][NextEmotion]_vars

\* the rules in their order, each with whether it matches the current vitals
\* and traits
EmotionRules ==
  <<[matches |-> vitals.hunger > 80, emotion |-> "yearning"],
    [matches |-> vitals.hygiene < 30, emotion |-> "overwhelmed"],
    [matches |-> vitals.energy < 20, emotion |-> "withdrawn"],
    [matches |-> vitals.mood > 85 /\ vitals.energy > 70, emotion |-> "ecstatic"],
    [matches |-> vitals.mood > 75 /\ identityTraits.energy > 60, emotion |-> "playful"],
    [matches |-> vitals.mood > 75 /\ identityTraits.curiosity > 60, emotion |-> "curious"],
    [matches |-> vitals.mood > 60 /\ identityTraits.affection > 60,
     emotion |-> "affectionate"],
    [matches |-> vitals.mood > 50 /\ vitals.mood < 70, emotion |-> "calm"],
    [matches |-> vitals.mood > 50 /\ identityTraits.curiosity > 70,
     emotion |-> "contemplative"],
    [matches |-> vitals.mood < 40, emotion |-> "melancholic"],
    [matches |-> vitals.energy > 60 /\ vitals.mood < 50, emotion |-> "restless"]>>

\* C24: calculateEmotionalResponse returns the result of the first matching
\* rule in the fixed order, serene when no rule matches: hunger > 80 gives
\* yearning whatever the other inputs, and mood 90, energy 80, hunger 20,
\* hygiene 90 gives ecstatic
C24_FirstMatchingRule ==
  result.fn = "calculateEmotionalResponse" =>
    LET matching == {i \in DOMAIN EmotionRules : EmotionRules[i].matches}
    IN /\ matching = {} => result.value = "serene"
       /\ matching # {} =>
            \E i \in matching :
              /\ \A j \in matching : i <= j
              /\ result.value = EmotionRules[i].emotion
       /\ vitals.hunger > 80 => result.value = "yearning"
       /\ vitals = [mood |-> 90, energy |-> 80, hunger |-> 20, hygiene |-> 90]
            => result.value = "ecstatic"

\* the response to a hungry and unwashed pet is yearning
C24_Witness ==
  /\ result = [fn |-> "calculateEmotionalResponse", value |-> "yearning"]
  /\ vitals.hunger > 80
  /\ vitals.hygiene < 30
  /\ vitals.mood > 85
  /\ vitals.energy > 70

\* the response to mood 90, energy 80, hunger 20, hygiene 90 is ecstatic
C24_WitnessEcstatic ==
  /\ result = [fn |-> "calculateEmotionalResponse", value |-> "ecstatic"]
  /\ vitals = [mood |-> 90, energy |-> 80, hunger |-> 20, hygiene |-> 90]

(***************************************************************************)
(* evolution: calculateTrinityAspect, calculateSecondaryAspect,            *)
(* calculateEvolutionTrait, calculateEvolutionPower, generateMutations and *)
(* calculateEvolution, applied to genomes of whole numbers in 0 .. 100     *)
(* (the children of breedGenomes are rounded)                              *)
(***************************************************************************)

Abs(x) == IF x < 0 THEN -x ELSE x

\* the tie rule: an axis that is at least the larger of the other two
Dominant_Strict(x, y, z) == x > Max(y, z)
Dominant(x, y, z) == x >= Max(y, z)

calculateTrinityAspect(g) ==
  IF g.red60 > g.blue60 /\ g.red60 > g.black60 THEN "sun"
  ELSE IF g.blue60 > g.red60 /\ g.blue60 > g.black60 THEN "shadow"
  ELSE IF g.black60 > g.red60 /\ g.black60 > g.blue60 THEN "void"
  ELSE IF Dominant(g.red60, g.blue60, g.black60) THEN "sun"
  ELSE IF Dominant(g.blue60, g.red60, g.black60) THEN "shadow"
  ELSE "void"

\* the entries of values, in the order of the object literal
AspectEntries(g) ==
  <<<<"sun", g.red60>>, <<"shadow", g.blue60>>, <<"void", g.black60>>>>

\* others.reduce((max, curr) => curr[1] > max[1] ? curr : max) on the two
\* entries that are not the primary one
calculateSecondaryAspect(g, primary) ==
  LET entries == AspectEntries(g)
      primaryValue == (CHOOSE e \in {entries[i] : i \in 1 .. 3} : e[1] = primary)[2]
      others == SelectSeq(entries, LAMBDA e : e[1] # primary)
      secondary == IF others[2][2] > others[1][2] THEN others[2] ELSE others[1]
  IN \* secondaryValue >= primaryValue * 0.8
     IF 5 * secondary[2] >= 4 * primaryValue THEN secondary[1] ELSE "null"

\* three times the largest distance of an axis from the average of the three
Variance3(g) ==
  LET sum == g.red60 + g.blue60 + g.black60
  IN Max(Abs(3 * g.red60 - sum), Max(Abs(3 * g.blue60 - sum), Abs(3 * g.black60 - sum)))

\* variance > 30
HighVariance_Never(g) == FALSE
HighVariance(g) == Variance3(g) > 3 * 30

calculateEvolutionTrait(g, primary, secondary) ==
  IF HighVariance(g) THEN "chaotic"
  ELSE IF Variance3(g) < 3 * 15 THEN "balanced"
  ELSE IF secondary # "null" THEN "cosmic"
  ELSE IF primary = "sun" THEN "radiant"
  ELSE IF primary = "shadow" THEN "umbral"
  ELSE "cosmic"

\* Math.round(strength * 0.6 + focus * 0.4), strength = total / 3 and focus
\* the largest axis: (total + 2 * max) / 5 rounded to the nearest whole number
calculateEvolutionPower(g) ==
  LET total == g.red60 + g.blue60 + g.black60
      max == Max(g.red60, Max(g.blue60, g.black60))
  IN (2 * (total + 2 * max) + 5) \div 10

generateMutations(g) ==
  LET when(cond, name) == IF cond THEN <<name>> ELSE <<>>
  IN when(g.red60 > 90, "Solar Flare") \o when(g.red60 < 10, "Dim Ember")
     \o when(g.blue60 > 90, "Crystal Form") \o when(g.blue60 < 10, "Fluid Shape")
     \o when(g.black60 > 90, "Void Touch") \o when(g.black60 < 10, "Clear Light")
     \o when(g.red60 > 85 /\ g.black60 > 85, "Supernova")
     \o when(g.blue60 > 85 /\ g.black60 > 85, "Dark Matter")
     \o when(g.red60 > 85 /\ g.blue60 > 85, "Plasma Core")

calculateEvolution(g) ==
  LET primary == calculateTrinityAspect(g)
      secondary == calculateSecondaryAspect(g, primary)
  IN [primaryAspect |-> primary,
      secondaryAspect |-> secondary,
      trait |-> calculateEvolutionTrait(g, primary, secondary),
      power |-> calculateEvolutionPower(g),
      mutations |-> generateMutations(g)]

AxisLevels == {0, 30, 40, 45, 50, 60, 75, 90, 100}

ApplyTrinityAspect ==
  /\ result' = [fn |-> "calculateTrinityAspect", value |-> calculateTrinityAspect(evoGenome)]
  /\ UNCHANGED <<evoGenome, outsideFn>>

ApplyEvolution ==
  /\ result' = [fn |-> "calculateEvolution", value |-> calculateEvolution(evoGenome)]
  /\ UNCHANGED <<evoGenome, outsideFn>>

InitEvolution ==
  /\ InitBase
  /\ script = "play"
  /\ InitPoke
  /\ InitArcade
  /\ identityTraits = DEFAULT_TRAITS
  /\ result = NoResult
  /\ evoGenome \in [red60 : AxisLevels, blue60 : AxisLevels, black60 : AxisLevels]

NextEvolution == ApplyTrinityAspect \/ ApplyEvolution

SpecEvolution == InitEvolution /\ [][NextEvolution]_vars

AxisValue(g, aspect) ==
  CASE aspect = "sun" -> g.red60
    [] aspect = "shadow" -> g.blue60
    [] aspect = "void" -> g.black60

AspectOrder == <<"sun", "shadow", "void">>

\* C25: calculateTrinityAspect returns an aspect whose axis value is the
\* largest of red60, blue60 and black60, and when several axes attain the
\* largest value it returns the first of sun, shadow, void that attains it
C25_PrimaryIsFirstLargestAxis ==
  result.fn = "calculateTrinityAspect" =>
    LET largest == Max(evoGenome.red60, Max(evoGenome.blue60, evoGenome.black60))
    IN \E i \in 1 .. 3 :
         /\ result.value = AspectOrder[i]
         /\ AxisValue(evoGenome, AspectOrder[i]) = largest
         /\ \A j \in 1 .. i - 1 : AxisValue(evoGenome, AspectOrder[j]) < largest

\* shadow and void tie for the largest value and shadow is returned
C25_Witness ==
  /\ result.fn = "calculateTrinityAspect"
  /\ result.value = "shadow"
  /\ evoGenome.blue60 = evoGenome.black60
  /\ evoGenome.red60 < evoGenome.blue60

\* C26: the trait is chaotic when the largest distance of an axis from the
\* average of the three exceeds 30, balanced when it is below 15, otherwise
\* cosmic when there is a secondary aspect and otherwise radiant, umbral or
\* cosmic for a primary sun, shadow or void; red60 90, blue60 40, black60 30
\* gives primary sun, no secondary and the trait chaotic
C26_TraitFromVariance ==
  result.fn = "calculateEvolution" =>
    LET g == evoGenome
        sum == g.red60 + g.blue60 + g.black60
        \* the distances from the average, times 3
        dist == {Abs(3 * g.red60 - sum), Abs(3 * g.blue60 - sum), Abs(3 * g.black60 - sum)}
        e == result.value
    IN /\ e.trait =
            IF \E d \in dist : d > 90 THEN "chaotic"
            ELSE IF \A d \in dist : d < 45 THEN "balanced"
            ELSE IF e.secondaryAspect # "null" THEN "cosmic"
            ELSE CASE e.primaryAspect = "sun" -> "radiant"
                   [] e.primaryAspect = "shadow" -> "umbral"
                   [] e.primaryAspect = "void" -> "cosmic"
       /\ g = [red60 |-> 90, blue60 |-> 40, black60 |-> 30] =>
            /\ e.primaryAspect = "sun"
            /\ e.secondaryAspect = "null"
            /\ e.trait = "chaotic"

\* the evolution of red60 90, blue60 40, black60 30 is chaotic
C26_Witness ==
  /\ result.fn = "calculateEvolution"
  /\ evoGenome = [red60 |-> 90, blue60 |-> 40, black60 |-> 30]
  /\ result.value.trait = "chaotic"
  /\ result.value.secondaryAspect = "null"

(***************************************************************************)
(* SnakeGame: the interval's tick, the key handler, the touch controls,    *)
(* the pause button and resetGame.  A key press or a button press is       *)
(* rendered before the next event is handled, so every handler reads the   *)
(* direction of the last render.  The speed slider only changes the period *)
(* of the interval; Escape and Close unmount the game.                     *)
(***************************************************************************)

GRID_SIZE == 15
SNAKE_WIN_SCORE == 50

\* ticks in one behaviour
MaxTicks == 6

\* the cells prng() can put the food on
FoodCells == {[x |-> 6, y |-> 5], [x |-> 7, y |-> 5], [x |-> 8, y |-> 5],
              [x |-> 9, y |-> 5], [x |-> 10, y |-> 5]}

Cells(snake) == {snake[i] : i \in DOMAIN snake}

\* spawnFood(current): the first candidate that is not on the snake, or
\* { x: 0, y: 0 } after 50 candidates on the snake
spawnFood(current) == (FoodCells \ Cells(current)) \cup {[x |-> 0, y |-> 0]}

Directions == {"up", "down", "left", "right"}

OppositeOf(dir) ==
  CASE dir = "up" -> "down"
    [] dir = "down" -> "up"
    [] dir = "left" -> "right"
    [] dir = "right" -> "left"

\* the cell next to head in direction dir
Moved(head, dir) ==
  CASE dir = "up" -> [head EXCEPT !.y = @ - 1]
    [] dir = "down" -> [head EXCEPT !.y = @ + 1]
    [] dir = "left" -> [head EXCEPT !.x = @ - 1]
    [] dir = "right" -> [head EXCEPT !.x = @ + 1]

\* a collision test that looks at the walls only
Collides_WallsOnly(newHead, bodyToCheck) ==
  \/ newHead.x < 0
  \/ newHead.x >= GRID_SIZE
  \/ newHead.y < 0
  \/ newHead.y >= GRID_SIZE
\* the condition of the if in tick
Collides(newHead, bodyToCheck) ==
  \/ newHead.x < 0
  \/ newHead.x >= GRID_SIZE
  \/ newHead.y < 0
  \/ newHead.y >= GRID_SIZE
  \/ \E i \in DOMAIN bodyToCheck : bodyToCheck[i] = newHead

outsideSnake == <<aiVars, statVars, gameVars, webVars, memVars, breedVars, fibVars,
                  fieldVars, storeVars, saveVars, tetrisVars, pokeVars, identityTraits,
                  fnVars, boardVars>>

\* the callback of the interval, which runs while the game is neither over
\* nor paused, and the high-score effect of the render that follows
tick ==
  /\ ~snakeOver
  /\ ~paused
  /\ ticks < MaxTicks
  /\ LET prev == segments
         newHead == Moved(prev[1], direction)
         willGrow == newHead = food
         bodyToCheck == IF willGrow THEN prev ELSE SubSeq(prev, 1, Len(prev) - 1)
         newSegments == <<newHead>> \o prev
         nextScore == snakeScore + 10
     IN IF Collides(newHead, bodyToCheck)
        THEN /\ snakeOver' = TRUE
             /\ snakeCalls' = <<"onWhisper">>
             /\ segments' = prev
             /\ UNCHANGED <<food, snakeScore, paused, snakeWon, highScore>>
        ELSE IF willGrow
        THEN /\ food' \in spawnFood(newSegments)
             /\ snakeScore' = nextScore
             /\ highScore' = Max(highScore, nextScore)
             /\ IF nextScore >= SNAKE_WIN_SCORE /\ ~snakeWon
                THEN /\ snakeWon' = TRUE
                     /\ snakeOver' = TRUE
                     /\ paused' = TRUE
                     /\ snakeCalls' = <<"onWhisper", "onWin">>
                ELSE /\ snakeCalls' = <<>>
                     /\ UNCHANGED <<snakeWon, snakeOver, paused>>
             /\ segments' = newSegments
        ELSE /\ segments' = SubSeq(newSegments, 1, Len(newSegments) - 1)
             /\ snakeCalls' = <<>>
             /\ UNCHANGED <<food, snakeScore, snakeOver, paused, snakeWon, highScore>>
  /\ lastApplied' = direction
  /\ ticks' = ticks + 1
  /\ UNCHANGED <<direction, outsideSnake>>

\* direction !== opposite && setDirection(dir)
Turn(dir) ==
  /\ direction' = IF direction # OppositeOf(dir) THEN dir ELSE direction
  /\ snakeCalls' = <<>>
  /\ UNCHANGED <<segments, food, snakeScore, snakeOver, paused, snakeWon, highScore,
                 lastApplied, ticks, outsideSnake>>

\* handleKeyPress with an arrow key; the listener is there while the game
\* is neither over nor paused
handleKeyPress ==
  /\ ~snakeOver
  /\ ~paused
  /\ \E dir \in Directions : Turn(dir)

\* onPress of a touch control
touchControls == \E dir \in Directions : Turn(dir)

\* the Pause button, and the space key while the listener is there
TogglePaused ==
  /\ paused' = ~paused
  /\ snakeCalls' = <<>>
  /\ UNCHANGED <<segments, food, direction, snakeScore, snakeOver, snakeWon, highScore,
                 lastApplied, ticks, outsideSnake>>

\* resetGame of the Reset and Play Again buttons
SnakeResetGame ==
  /\ segments' = startingSnake
  /\ food' \in spawnFood(startingSnake)
  /\ direction' = "right"
  /\ snakeScore' = 0
  /\ snakeOver' = FALSE
  /\ paused' = FALSE
  /\ snakeWon' = FALSE
  /\ snakeCalls' = <<"onWhisper">>
  /\ lastApplied' = "none"
  /\ UNCHANGED <<highScore, ticks, outsideSnake>>

\* the game after the effect of the mount, which whispers and spawns the food
InitSnakeGame ==
  /\ InitBase
  /\ script = "play"
  /\ InitPoke
  /\ identityTraits = DEFAULT_TRAITS
  /\ InitFn
  /\ InitBoard
  /\ segments = startingSnake
  /\ food \in spawnFood(startingSnake)
  /\ direction = "right"
  /\ snakeScore = 0
  /\ snakeOver = FALSE
  /\ paused = FALSE
  /\ snakeWon = FALSE
  /\ highScore = 0
  /\ snakeCalls = <<"onWhisper">>
  /\ lastApplied = "none"
  /\ ticks = 0

NextSnake ==
  \/ tick
  \/ handleKeyPress
  \/ touchControls
  \/ TogglePaused
  \/ SnakeResetGame

SpecSnake == InitSnakeGame /\ [][NextSnake]_vars

InsideGrid(cell) ==
  /\ cell.x \in 0 .. GRID_SIZE - 1
  /\ cell.y \in 0 .. GRID_SIZE - 1

\* the new head of a tick is outside the grid or on a cell of the snake
\* that the snake does not leave in this tick: the tail is left unless the
\* new head is on the food
HitsWallOrBody(snake, dir, foodCell) ==
  LET newHead == Moved(snake[1], dir)
  IN \/ ~InsideGrid(newHead)
     \/ \E i \in 1 .. Len(snake) :
          /\ snake[i] = newHead
          /\ i < Len(snake) \/ newHead = foodCell

\* C28: in every reachable state all segments are inside the 15x15 grid and
\* pairwise distinct, and a tick whose new head would leave the grid or land
\* on a body cell that remains occupied sets gameOver and leaves the
\* segments unchanged
C28_SnakeInsideGridAndDistinct ==
  [][/\ \A i \in DOMAIN segments' : InsideGrid(segments'[i])
     /\ \A i, j \in DOMAIN segments' : i # j => segments'[i] # segments'[j]
     /\ (ticks' = ticks + 1 /\ HitsWallOrBody(segments, direction, food))
          => snakeOver' /\ segments' = segments]_vars

\* a snake of five or more segments has run into itself without reversing
C28_Witness ==
  /\ snakeOver
  /\ ~snakeWon
  /\ Len(segments) >= 5
  /\ lastApplied \in Directions
  /\ Moved(segments[1], lastApplied) \in Cells(segments)
  /\ Moved(segments[1], lastApplied) # segments[2]

\* a snake has run into the wall
C28_WitnessWall ==
  /\ snakeOver
  /\ lastApplied \in Directions
  /\ ~InsideGrid(Moved(segments[1], lastApplied))

\* C29: the direction applied by a tick is never the exact opposite of the
\* direction applied by the previous tick, whatever key presses and
\* touch-control presses come between the two ticks
C29_NoReversalBetweenTicks ==
  [][(ticks' = ticks + 1 /\ lastApplied \in Directions)
       => lastApplied' # OppositeOf(lastApplied)]_vars

(***************************************************************************)
(* TetrisGame: the board.  movePiece, rotateCurrentPiece and hardDrop on   *)
(* the board and the piece of the last render, with the lock they lead to. *)
(* The handlers are reached from the keys, from the interval and from the  *)
(* touch controls, which stay in place while the game is paused.  A        *)
(* callback reads the state of the render that created it: canPlacePiece   *)
(* the board, lockPiece the current piece.                                 *)
(***************************************************************************)

\* handler calls in one behaviour
MaxDropOps == 4

\* the shapes of TETRIS_PIECES: I, O, T, S, Z, J, L
TETRIS_PIECES ==
  <<<<<<1, 1, 1, 1>>>>,
    <<<<1, 1>>, <<1, 1>>>>,
    <<<<0, 1, 0>>, <<1, 1, 1>>>>,
    <<<<1, 1, 0>>, <<0, 1, 1>>>>,
    <<<<0, 1, 1>>, <<1, 1, 0>>>>,
    <<<<1, 0, 0>>, <<1, 1, 1>>>>,
    <<<<0, 0, 1>>, <<1, 1, 1>>>>>>

rotatePiece(shape) ==
  LET rows == Len(shape)
      cols == Len(shape[1])
  IN [i \in 1 .. cols |-> [j \in 1 .. rows |-> shape[rows + 1 - j][i]]]

\* the cells of a piece moved by the offsets, as <<x, y>>
PieceCells(piece, offsetX, offsetY) ==
  {<<piece.x + (x - 1) + offsetX, piece.y + (y - 1) + offsetY>> :
     <<x, y>> \in {c \in (1 .. 4) \X (1 .. 4) :
                     /\ c[2] <= Len(piece.shape)
                     /\ c[1] <= Len(piece.shape[c[2]])
                     /\ piece.shape[c[2]][c[1]] # 0}}

canPlacePiece(piece, offsetX, offsetY, targetBoard) ==
  \A c \in PieceCells(piece, offsetX, offsetY) :
    /\ ~(c[1] < 0 \/ c[1] >= BOARD_WIDTH \/ c[2] >= BOARD_HEIGHT)
    /\ ~(c[2] >= 0 /\ targetBoard[c[2] + 1][c[1] + 1] # 0)

mergePiece(piece, targetBoard) ==
  [y \in 1 .. BOARD_HEIGHT |->
     [x \in 1 .. BOARD_WIDTH |->
        IF <<x - 1, y - 1>> \in PieceCells(piece, 0, 0) THEN 1 ELSE targetBoard[y][x]]]

\* clearLines: the full rows removed and as many empty rows put on top
clearLines(targetBoard) ==
  LET isFull(row) == \A x \in 1 .. BOARD_WIDTH : row[x] = 1
      kept == SelectSeq(targetBoard, LAMBDA row : ~isFull(row))
      linesCleared == BOARD_HEIGHT - Len(kept)
  IN [newBoard |-> [y \in 1 .. linesCleared |-> [x \in 1 .. BOARD_WIDTH |-> 0]] \o kept,
      linesCleared |-> linesCleared]

\* the pieces prng() chooses in the behaviours explored: I, O and T
PieceChoices == {i \in DOMAIN TETRIS_PIECES : i <= 3}

\* nextRandomPiece: one of the pieces, at the top
nextRandomPiece == {[shape |-> TETRIS_PIECES[i], x |-> 4, y |-> 0] : i \in PieceChoices}

outsideBoard == <<aiVars, webVars, memVars, breedVars, fibVars, fieldVars, storeVars,
                  saveVars, pokeVars, identityTraits, fnVars, snakeVars>>

\* the piece a lock that follows a drop of prev merges: the piece of the
\* render, or the piece the drop has just computed
PieceLocked_Dropped(rendered, dropped) == dropped
PieceLocked(rendered, dropped) == rendered

\* lockPiece() of the last render, which merges piece; by and from tell the
\* handler that called it and the piece that handler started from
LockBoard(piece, by, from) ==
  LET cleared == clearLines(mergePiece(piece, board))
      addedScore == cleared.linesCleared * 100
  IN /\ board' = cleared.newBoard
     /\ score' = score + addedScore
     /\ lastLock' = [by |-> by, piece |-> piece, from |-> from, on |-> board]
     /\ UNCHANGED <<energy, health>>
     /\ \E nextPiece \in nextRandomPiece :
          IF ~canPlacePiece(nextPiece, 0, 0, cleared.newBoard)
          THEN /\ gameOver' = TRUE
               /\ currentPiece' = NoPiece
               /\ IF score + addedScore >= WIN_SCORE /\ ~hasWon
                  THEN /\ hasWon' = TRUE
                       /\ onWinCalls' = onWinCalls + 1
                       /\ bond' = AddCapped(bond, 2 * 20)
                       /\ curiosity' = AddCapped(curiosity, 2 * 15)
                       /\ gamesWon' = gamesWon + 1
                       /\ bondHistory' = addToBondHistory("Won Tetris game")
                       /\ Render
                  ELSE UNCHANGED <<hasWon, onWinCalls, bond, curiosity, gamesWon,
                                   bondHistory, genome>>
          ELSE /\ currentPiece' = nextPiece
               /\ UNCHANGED <<gameOver, hasWon, onWinCalls, bond, curiosity, gamesWon,
                              bondHistory, genome>>

BoardUnlocked ==
  UNCHANGED <<board, lastLock, statVars, bondHistory, gamesWon, tetrisVars>>

BoardFrame ==
  /\ dropOps < MaxDropOps
  /\ dropOps' = dropOps + 1
  /\ UNCHANGED <<offspring, totalInteractions, breedingPartner, whisper, prngDraws,
                 activatedPoints, patternChallenge, triviaQuestion, currentGame,
                 pokeCount, tapCount, ops, outsideBoard>>

\* movePiece(dx, dy)
movePiece(dx, dy) ==
  /\ BoardFrame
  /\ LET prev == currentPiece
     IN IF prev = NoPiece THEN UNCHANGED currentPiece /\ BoardUnlocked
        ELSE IF canPlacePiece(prev, dx, dy, board)
        THEN /\ currentPiece' = [prev EXCEPT !.x = @ + dx, !.y = @ + dy]
             /\ BoardUnlocked
        ELSE IF dy > 0 THEN LockBoard(currentPiece, "movePiece", prev)
        ELSE UNCHANGED currentPiece /\ BoardUnlocked

MovePieceCall == \E d \in {<<-1, 0>>, <<1, 0>>, <<0, 1>>} : movePiece(d[1], d[2])

rotateCurrentPiece ==
  /\ BoardFrame
  /\ BoardUnlocked
  /\ LET prev == currentPiece
         rotated == [prev EXCEPT !.shape = rotatePiece(prev.shape)]
     IN currentPiece' = IF prev # NoPiece /\ canPlacePiece(rotated, 0, 0, board)
                        THEN rotated ELSE prev

\* the rows prev can fall on targetBoard: the dropY of hardDrop
RECURSIVE DropY(_, _, _)
DropY(prev, dropY, targetBoard) ==
  IF canPlacePiece(prev, 0, dropY + 1, targetBoard)
  THEN DropY(prev, dropY + 1, targetBoard) ELSE dropY

\* hardDrop: the update of the piece, then lockPiece(), whose update of the
\* piece comes after the one of the drop
hardDrop ==
  /\ BoardFrame
  /\ LET prev == currentPiece
     IN IF prev = NoPiece THEN UNCHANGED currentPiece /\ BoardUnlocked
        ELSE LET dropped == [prev EXCEPT !.y = @ + DropY(prev, 0, board)]
             IN LockBoard(PieceLocked(currentPiece, dropped), "hardDrop", prev)

\* a board with a square at rest on the floor
squareBoard == mergePiece([shape |-> TETRIS_PIECES[2], x |-> 4, y |-> BOARD_HEIGHT - 2],
                          emptyBoard)

StartBoards == {emptyBoard, squareBoard}
StartRows == {0, 17}

\* a game under way: the piece at the top or three rows above the floor
InitBoardGame ==
  /\ InitAI
  /\ InitStats
  /\ InitWeb
  /\ InitMem
  /\ script = "play"
  /\ InitBreed
  /\ InitFib
  /\ InitFieldOf(Fields["AURALIA"])
  /\ InitStore
  /\ InitSave
  /\ InitTetris
  /\ InitPoke
  /\ identityTraits = DEFAULT_TRAITS
  /\ InitFn
  /\ InitSnake
  /\ bondHistory = <<>> /\ offspring = <<>> /\ gamesWon = 0 /\ totalInteractions = 0
  /\ breedingPartner = "" /\ whisper = "Stack the sacred geometries!"
  /\ prngDraws = 0 /\ activatedPoints = {} /\ patternChallenge = NoPattern
  /\ triviaQuestion = NoQuestion /\ currentGame = "tetris"
  /\ pokeCount = 0 /\ tapCount = 0 /\ ops = 0
  /\ board \in StartBoards
  /\ \E piece \in nextRandomPiece, y \in StartRows :
       /\ currentPiece = [piece EXCEPT !.y = y]
       /\ canPlacePiece(currentPiece, 0, 0, board)
  /\ lastLock = NoLock
  /\ dropOps = 0

NextBoard == MovePieceCall \/ rotateCurrentPiece \/ hardDrop

SpecBoard == InitBoardGame /\ [][NextBoard]_vars

\* piece is where it cannot move one more row down on targetBoard, and it
\* is from moved down through free rows only
AtLowestLegalPosition(piece, from, targetBoard) ==
  /\ ~canPlacePiece(piece, 0, 1, targetBoard)
  /\ piece = [from EXCEPT !.y = piece.y]
  /\ \A dy \in 0 .. piece.y - from.y : canPlacePiece(from, 0, dy, targetBoard)

\* C30: after a hardDrop the cells merged into the board are those of the
\* current piece at its lowest legal position, where it cannot move one more
\* row down, the cells that repeated soft drops until the lock would merge;
\* no piece is ever locked at a position from which it could still fall
C30_HardDropLocksAtLowestPosition ==
  lastLock.by # "none" =>
    /\ ~canPlacePiece(lastLock.piece, 0, 1, lastLock.on)
    /\ lastLock.by = "hardDrop" =>
         AtLowestLegalPosition(lastLock.piece, lastLock.from, lastLock.on)

====
